---- MODULE Spec2Model ----
(***************************************************************************)
(* Model of go-appconfig-example: the field registry (FieldCollection),    *)
(* Field.Validate and its validators, and the value store that config.go   *)
(* builds on viper (Init / ReadField / WriteField).                        *)
(*                                                                         *)
(* A Go string is a TLA+ string; Chars gives its characters, and prefix    *)
(* matching, path.Ext, strings.ToLower, time.ParseDuration and the         *)
(* environment key replacer are computed on the characters as the code     *)
(* computes them.                                                          *)
(* A Go value of type any is a record [t |-> dynamic type, v |-> payload]; *)
(* two such values are == in Go exactly when the records are equal.        *)
(***************************************************************************)
EXTENDS Integers, Sequences, FiniteSets, TLC

VARIABLES
    heap,        \* the Field objects: object name -> contents
    Fields,      \* config.Fields: sequence of *Field
    fieldsImpl,  \* which fields.go is built: "replace" or "copy"
    phase,       \* "Library" (no process), "Uninitialized", "Ready", "Exited"
    exitCode,    \* exit code of the process once Exited, -1 before
    osArgs,      \* the --config flag as bound to viper: [changed, value]
    osEnv,       \* the process environment: variable name -> value or Nil
    fsConfig,    \* the files and directories on disk: [files, dirs, sibling]
    vAutoEnv,    \* viper: AutomaticEnv is on
    vOverride,   \* viper: values set with viper.Set, key -> value or Nil
    vConfig,     \* viper: values read from the config file
    vDefaults,   \* viper: values set with viper.SetDefault
    vConfigType, \* viper: the characters of the type set with SetConfigType
    lastCall     \* the last call: its operation, inputs and results

registryVars == <<heap, Fields, fieldsImpl>>
processVars == <<phase, exitCode, osArgs, osEnv, fsConfig>>
viperVars == <<vAutoEnv, vOverride, vConfig, vDefaults, vConfigType>>
vars == <<registryVars, processVars, viperVars, lastCall>>

----------------------------------------------------------------------------
(* Strings                                                                 *)

\* The characters of each string the model computes with.
Chars ==
    "" :> <<>> @@
    "environment" :> <<"e", "n", "v", "i", "r", "o", "n", "m", "e", "n", "t">> @@
    "log.level" :> <<"l", "o", "g", ".", "l", "e", "v", "e", "l">> @@
    "log.output" :> <<"l", "o", "g", ".", "o", "u", "t", "p", "u", "t">> @@
    "log.format" :> <<"l", "o", "g", ".", "f", "o", "r", "m", "a", "t">> @@
    "update.unstable" :> <<"u", "p", "d", "a", "t", "e", ".", "u", "n", "s", "t", "a", "b", "l", "e">> @@
    "update.auto" :> <<"u", "p", "d", "a", "t", "e", ".", "a", "u", "t", "o">> @@
    "update.period" :> <<"u", "p", "d", "a", "t", "e", ".", "p", "e", "r", "i", "o", "d">> @@
    "proxy.all" :> <<"p", "r", "o", "x", "y", ".", "a", "l", "l">> @@
    "proxy.http" :> <<"p", "r", "o", "x", "y", ".", "h", "t", "t", "p">> @@
    "proxy.https" :> <<"p", "r", "o", "x", "y", ".", "h", "t", "t", "p", "s">> @@
    "config" :> <<"c", "o", "n", "f", "i", "g">> @@
    "verbose" :> <<"v", "e", "r", "b", "o", "s", "e">> @@
    "Application" :> <<"A", "p", "p", "l", "i", "c", "a", "t", "i", "o", "n">> @@
    "Network" :> <<"N", "e", "t", "w", "o", "r", "k">> @@
    "Custom" :> <<"C", "u", "s", "t", "o", "m">> @@
    "log" :> <<"l", "o", "g">> @@
    "log." :> <<"l", "o", "g", ".">> @@
    "logs" :> <<"l", "o", "g", "s">> @@
    "proxy" :> <<"p", "r", "o", "x", "y">> @@
    "dev" :> <<"d", "e", "v">> @@
    "debug" :> <<"d", "e", "b", "u", "g">> @@
    "info" :> <<"i", "n", "f", "o">> @@
    "warn" :> <<"w", "a", "r", "n">> @@
    "error" :> <<"e", "r", "r", "o", "r">> @@
    "trace" :> <<"t", "r", "a", "c", "e">> @@
    "json" :> <<"j", "s", "o", "n">> @@
    "text" :> <<"t", "e", "x", "t">> @@
    "true" :> <<"t", "r", "u", "e">> @@
    "false" :> <<"f", "a", "l", "s", "e">> @@
    "15m" :> <<"1", "5", "m">> @@
    "1h30m" :> <<"1", "h", "3", "0", "m">> @@
    "10" :> <<"1", "0">> @@
    "not-a-duration" :> <<"n", "o", "t", "-", "a", "-", "d", "u", "r", "a", "t", "i", "o", "n">> @@
    "http://proxy:8080" :> <<"h", "t", "t", "p", ":", "/", "/", "p", "r", "o", "x", "y", ":", "8", "0", "8", "0">> @@
    "/var/log/app.log" :> <<"/", "v", "a", "r", "/", "l", "o", "g", "/", "a", "p", "p", ".", "l", "o", "g">> @@
    "/var/log" :> <<"/", "v", "a", "r", "/", "l", "o", "g">> @@
    "config.yaml" :> <<"c", "o", "n", "f", "i", "g", ".", "y", "a", "m", "l">> @@
    "config.toml" :> <<"c", "o", "n", "f", "i", "g", ".", "t", "o", "m", "l">> @@
    "conf.d/app.YML" :> <<"c", "o", "n", "f", ".", "d", "/", "a", "p", "p", ".", "Y", "M", "L">> @@
    "config.exe" :> <<"c", "o", "n", "f", "i", "g", ".", "e", "x", "e">> @@
    "conf.d/app" :> <<"c", "o", "n", "f", ".", "d", "/", "a", "p", "p">> @@
    "yaml" :> <<"y", "a", "m", "l">> @@
    "yml" :> <<"y", "m", "l">> @@
    "toml" :> <<"t", "o", "m", "l">> @@
    "hcl" :> <<"h", "c", "l">> @@
    "env" :> <<"e", "n", "v">> @@
    "confapp" :> <<"c", "o", "n", "f", "a", "p", "p">> @@
    "prod" :> <<"p", "r", "o", "d">> @@
    "not-a-url" :> <<"n", "o", "t", "-", "a", "-", "u", "r", "l">> @@
    "properties" :> <<"p", "r", "o", "p", "e", "r", "t", "i", "e", "s">> @@
    "props" :> <<"p", "r", "o", "p", "s">> @@
    "prop" :> <<"p", "r", "o", "p">> @@
    "tfvars" :> <<"t", "f", "v", "a", "r", "s">> @@
    "dotenv" :> <<"d", "o", "t", "e", "n", "v">> @@
    "ini" :> <<"i", "n", "i">> @@
    "confapp/config.yaml" :> <<"c", "o", "n", "f", "a", "p", "p", "/", "c", "o", "n", "f", "i", "g", ".", "y", "a", "m", "l">> @@
    "confapp/config" :> <<"c", "o", "n", "f", "a", "p", "p", "/", "c", "o", "n", "f", "i", "g">> @@
    "." :> <<".">> @@
    "conf.d" :> <<"c", "o", "n", "f", ".", "d">> @@
    "CONFAPP_ENVIRONMENT" :> <<"C", "O", "N", "F", "A", "P", "P", "_", "E", "N", "V", "I", "R", "O", "N", "M", "E", "N", "T">> @@
    "CONFAPP_LOG_LEVEL" :> <<"C", "O", "N", "F", "A", "P", "P", "_", "L", "O", "G", "_", "L", "E", "V", "E", "L">> @@
    "CONFAPP_LOG_OUTPUT" :> <<"C", "O", "N", "F", "A", "P", "P", "_", "L", "O", "G", "_", "O", "U", "T", "P", "U", "T">> @@
    "CONFAPP_LOG_FORMAT" :> <<"C", "O", "N", "F", "A", "P", "P", "_", "L", "O", "G", "_", "F", "O", "R", "M", "A", "T">> @@
    "CONFAPP_UPDATE_UNSTABLE" :> <<"C", "O", "N", "F", "A", "P", "P", "_", "U", "P", "D", "A", "T", "E", "_", "U", "N", "S", "T", "A", "B", "L", "E">> @@
    "CONFAPP_UPDATE_AUTO" :> <<"C", "O", "N", "F", "A", "P", "P", "_", "U", "P", "D", "A", "T", "E", "_", "A", "U", "T", "O">> @@
    "CONFAPP_UPDATE_PERIOD" :> <<"C", "O", "N", "F", "A", "P", "P", "_", "U", "P", "D", "A", "T", "E", "_", "P", "E", "R", "I", "O", "D">> @@
    "CONFAPP_PROXY_ALL" :> <<"C", "O", "N", "F", "A", "P", "P", "_", "P", "R", "O", "X", "Y", "_", "A", "L", "L">> @@
    "CONFAPP_PROXY_HTTP" :> <<"C", "O", "N", "F", "A", "P", "P", "_", "P", "R", "O", "X", "Y", "_", "H", "T", "T", "P">> @@
    "CONFAPP_PROXY_HTTPS" :> <<"C", "O", "N", "F", "A", "P", "P", "_", "P", "R", "O", "X", "Y", "_", "H", "T", "T", "P", "S">> @@
    "CONFAPP_CONFIG" :> <<"C", "O", "N", "F", "A", "P", "P", "_", "C", "O", "N", "F", "I", "G">> @@
    "CONFAPP_VERBOSE" :> <<"C", "O", "N", "F", "A", "P", "P", "_", "V", "E", "R", "B", "O", "S", "E">>

\* The string with the given characters.
FromChars(cs) == CHOOSE s \in DOMAIN Chars : Chars[s] = cs

\* strings.HasPrefix(s, prefix): byte-wise prefix test.
HasPrefix(s, prefix) ==
    /\ Len(Chars[prefix]) <= Len(Chars[s])
    /\ SubSeq(Chars[s], 1, Len(Chars[prefix])) = Chars[prefix]

UpperCase ==
    <<"A", "B", "C", "D", "E", "F", "G", "H", "I", "J", "K", "L", "M", "N",
      "O", "P", "Q", "R", "S", "T", "U", "V", "W", "X", "Y", "Z">>

LowerCase ==
    <<"a", "b", "c", "d", "e", "f", "g", "h", "i", "j", "k", "l", "m", "n",
      "o", "p", "q", "r", "s", "t", "u", "v", "w", "x", "y", "z">>

Letters ==
    {UpperCase[i] : i \in 1..Len(UpperCase)} \cup
    {LowerCase[i] : i \in 1..Len(LowerCase)}

Digits == {"0", "1", "2", "3", "4", "5", "6", "7", "8", "9"}

UpperToLower ==
    [c \in {UpperCase[i] : i \in 1..Len(UpperCase)} |->
        LowerCase[CHOOSE i \in 1..Len(UpperCase) : UpperCase[i] = c]]

LowerToUpper ==
    [c \in {LowerCase[i] : i \in 1..Len(LowerCase)} |->
        UpperCase[CHOOSE i \in 1..Len(LowerCase) : LowerCase[i] = c]]

\* strings.ToLower, on characters
ToLower(cs) ==
    [i \in 1..Len(cs) |->
        IF cs[i] \in DOMAIN UpperToLower THEN UpperToLower[cs[i]] ELSE cs[i]]

\* strings.ToUpper, on characters
ToUpper(cs) ==
    [i \in 1..Len(cs) |->
        IF cs[i] \in DOMAIN LowerToUpper THEN LowerToUpper[cs[i]] ELSE cs[i]]

\* strings.NewReplacer(".", "_").Replace, on characters
ReplaceDots(cs) == [i \in 1..Len(cs) |-> IF cs[i] = "." THEN "_" ELSE cs[i]]

\* path.Ext, on characters: the suffix beginning at the final dot in the
\* final slash-separated element of the path; empty if there is no dot.
RECURSIVE ExtFrom(_, _)
ExtFrom(cs, i) ==
    IF i < 1 \/ cs[i] = "/" THEN <<>>
    ELSE IF cs[i] = "." THEN SubSeq(cs, i, Len(cs))
    ELSE ExtFrom(cs, i - 1)

Ext(cs) == ExtFrom(cs, Len(cs))

Drop(cs, n) == SubSeq(cs, n + 1, Len(cs))

\* path.Base(cs), for a clean path: what is behind the last slash.
Base(cs) ==
    LET slashes == {i \in 1..Len(cs) : cs[i] = "/"} IN
    IF slashes = {} THEN cs
    ELSE SubSeq(cs, (CHOOSE i \in slashes : \A j \in slashes : j <= i) + 1, Len(cs))

\* strings.TrimSuffix(cs, path.Ext(cs))
TrimExt(cs) == SubSeq(cs, 1, Len(cs) - Len(Ext(cs)))

\* path.Dir(cs), for a clean path: what is before the last slash, "." when
\* there is no slash.
Dir(cs) ==
    LET slashes == {i \in 1..Len(cs) : cs[i] = "/"} IN
    IF slashes = {} THEN <<".">>
    ELSE LET last == CHOOSE i \in slashes : \A j \in slashes : j <= i IN
         IF last = 1 THEN <<"/">> ELSE SubSeq(cs, 1, last - 1)

\* The bytes the strings are made of, in ascending order.
CharOrder ==
    <<"+", "-", ".", "/", "0", "1", "2", "3", "4", "5", "6", "7", "8", "9",
      ":", "A", "B", "C", "D", "E", "F", "G", "H", "I", "J", "K", "L", "M",
      "N", "O", "P", "Q", "R", "S", "T", "U", "V", "W", "X", "Y", "Z", "_",
      "a", "b", "c", "d", "e", "f", "g", "h", "i", "j", "k", "l", "m", "n",
      "o", "p", "q", "r", "s", "t", "u", "v", "w", "x", "y", "z">>

CharRank(c) == CHOOSE i \in 1..Len(CharOrder) : CharOrder[i] = c

\* a < b, byte by byte, on the characters of two strings.
RECURSIVE CharsLess(_, _)
CharsLess(a, b) ==
    IF b = <<>> THEN FALSE
    ELSE IF a = <<>> THEN TRUE
    ELSE IF Head(a) = Head(b) THEN CharsLess(Tail(a), Tail(b))
    ELSE CharRank(Head(a)) < CharRank(Head(b))

\* strings.Compare(a, b) < 0, the order of slices.Sort on strings.
StrLess(a, b) == CharsLess(Chars[a], Chars[b])

----------------------------------------------------------------------------
(* Values of type any                                                      *)

Nil == [t |-> "nil", v |-> ""]
StrVal(s) == [t |-> "string", v |-> s]
BoolVal(s) == [t |-> "bool", v |-> s]
IntVal(s) == [t |-> "int", v |-> s]
DurationVal(s) == [t |-> "time.Duration", v |-> s]

\* The result of a function that returns error: "" is the nil error, and
\* Panicked stands for a call that does not return but panics.
NoError == ""
Panicked == "panic"

----------------------------------------------------------------------------
(* Validators                                                              *)

validConfigFileExts == <<"yaml", "yml", "json", "toml", "hcl", "env">>

\* slices.Contains that looks at the first element only.
ContainsFirstOnly(list, x) == list # <<>> /\ list[1] = x

\* slices.Contains
Contains(list, x) == \E i \in 1..Len(list) : list[i] = x

\* The extension, as characters, is one of validConfigFileExts.
SupportedExt(ext) ==
    \E i \in 1..Len(validConfigFileExts) : Chars[validConfigFileExts[i]] = ext

\* validateConfigFile (the validators.go that checks for an extension).
validateConfigFile(v) ==
    IF v.t # "string" THEN "config file path must be a string"
    ELSE IF v.v = "" THEN NoError
    ELSE LET cfgFileExt == ToLower(Ext(Chars[v.v])) IN
         IF cfgFileExt = <<>> THEN "config file must have an extension"
         ELSE IF ~SupportedExt(Tail(cfgFileExt))
              THEN "unsupported file extension"
              ELSE NoError

\* validateConfigFile as internal/config/validators.go has it: the leading
\* dot is cut from path.Ext(val) before the extension is looked at, which
\* panics (slice bounds out of range) on a path without an extension.
validateConfigFileUnchecked(v) ==
    IF v.t # "string" THEN "config file must be a string"
    ELSE IF v.v = "" THEN NoError
    ELSE IF Ext(Chars[v.v]) = <<>> THEN Panicked
    ELSE IF ~SupportedExt(ToLower(Tail(Ext(Chars[v.v]))))
         THEN "valid extensions"
         ELSE NoError

\* The number of leading characters of cs that are digits.
RECURSIVE LeadingDigits(_)
LeadingDigits(cs) ==
    IF cs # <<>> /\ Head(cs) \in Digits THEN 1 + LeadingDigits(Tail(cs)) ELSE 0

\* The number of leading characters of cs that are neither '.' nor a digit.
RECURSIVE LeadingUnit(_)
LeadingUnit(cs) ==
    IF cs # <<>> /\ Head(cs) # "." /\ Head(cs) \notin Digits
    THEN 1 + LeadingUnit(Tail(cs)) ELSE 0

unitMap ==
    { <<"n","s">>, <<"u","s">>, <<"m","s">>, <<"s">>, <<"m">>, <<"h">> }

\* The loop of time.ParseDuration over ([0-9]*(\.[0-9]*)?[a-z]+)+ :
\* TRUE when the remaining input parses.
RECURSIVE ParseGroups(_)
ParseGroups(cs) ==
    IF cs = <<>> THEN TRUE
    ELSE IF ~(Head(cs) = "." \/ Head(cs) \in Digits) THEN FALSE
    ELSE LET pl == LeadingDigits(cs)
             s1 == Drop(cs, pl)
             dot == s1 # <<>> /\ Head(s1) = "."
             s2 == IF dot THEN Tail(s1) ELSE s1
             post == IF dot THEN LeadingDigits(s2) ELSE 0
             s3 == Drop(s2, post)
             ul == LeadingUnit(s3)
         IN  /\ pl > 0 \/ post > 0
             /\ ul > 0
             /\ SubSeq(s3, 1, ul) \in unitMap
             /\ ParseGroups(Drop(s3, ul))

\* time.ParseDuration(s) returns a nil error.
ParseDurationOK(s) ==
    LET cs == Chars[s]
        body == IF cs # <<>> /\ Head(cs) \in {"-", "+"} THEN Tail(cs) ELSE cs
    IN  IF body = <<"0">> THEN TRUE
        ELSE IF body = <<>> THEN FALSE
        ELSE ParseGroups(body)

NumericTypes ==
    {"int", "int64", "int32", "int16", "int8", "uint", "uint64", "uint32",
     "uint16", "uint8", "float32", "float64"}

\* validateDuration with every string accepted without parsing it.
validateDurationUnparsed(v) ==
    IF v.t \in NumericTypes THEN NoError
    ELSE IF v.t = "string" THEN NoError
    ELSE "duration must be a string or numeric value"

\* validateDuration
validateDuration(v) ==
    IF v.t \in NumericTypes THEN NoError
    ELSE IF v.t = "string" THEN
        IF v.v = "" THEN NoError
        ELSE IF ~ParseDurationOK(v.v) THEN "invalid duration format"
        ELSE NoError
    ELSE "duration must be a string or numeric value"

----------------------------------------------------------------------------
(* validator.New().Var(value, tag) for the tags the fields declare         *)

\* The "url" rule: the string parses as a URL with a non-empty scheme and
\* something after it.
IsURL(s) ==
    LET cs == Chars[s] IN
    \E i \in 2..(Len(cs) - 1) :
        /\ cs[i] = ":"
        /\ \A j \in 1..(i - 1) : cs[j] \in Letters

\* Paths that exist as directories on the file system of the run.
ExistingDirs == {"/var/log"}

\* The "filepath" rule: not a directory, not blank, no trailing separator.
IsFilePath(s) ==
    /\ s \notin ExistingDirs
    /\ s # ""
    /\ Chars[s][Len(Chars[s])] # "/"

\* "pass", "fail" (Var returns an error) or "panic" (the rules are defined
\* on strings only and panic with "Bad field type" on any other kind).
validatorVar(value, tag) ==
    IF value.t # "string" THEN "panic"
    ELSE IF tag = "url" THEN (IF IsURL(value.v) THEN "pass" ELSE "fail")
    ELSE IF tag = "filepath" THEN (IF IsFilePath(value.v) THEN "pass" ELSE "fail")
    ELSE "pass"

----------------------------------------------------------------------------
(* Field and Field.Validate                                                *)

\* A []any slice: the nil slice and the empty non-nil slice are different
\* values with the same (zero) length.
NilSlice == [isNil |-> TRUE, elems |-> <<>>]
Slice(elems) == [isNil |-> FALSE, elems |-> elems]

\* An error value: msg = "" is the nil error; name and allowed are the field
\* name and the allowed values the message is formatted with.
NilError == [msg |-> NoError, name |-> "", allowed |-> <<>>]
FieldError(msg, name, allowed) == [msg |-> msg, name |-> name, allowed |-> allowed]

\* Calls f.ValidateFunc(value).
CallValidateFunc(fn, value) ==
    CASE fn = "validateConfigFile" -> validateConfigFile(value)
      [] fn = "validateConfigFileUnchecked" -> validateConfigFileUnchecked(value)
      [] fn = "validateDuration" -> validateDuration(value)

\* What Validate returns: the error, the rules that were evaluated, in
\* order, and whether the call panicked instead of returning.
Outcome(err, rules, panicked) == [err |-> err, rules |-> rules, panicked |-> panicked]

\* The allowed-value check of Field.Validate.
CheckValidValues(f, value) ==
    IF Contains(f.ValidValues.elems, value)
    THEN Outcome(NilError, <<"ValidValues">>, FALSE)
    ELSE Outcome(FieldError("valid values", f.Name, f.ValidValues.elems),
                 <<"ValidValues">>, FALSE)

\* The custom function of Field.Validate, after the rules in done.
CheckValidateFunc(f, value, done) ==
    IF f.ValidateFunc # "nil"
    THEN LET res == CallValidateFunc(f.ValidateFunc, value) IN
         Outcome(IF res = NoError \/ res = Panicked THEN NilError
                 ELSE FieldError(res, f.Name, <<>>),
                 Append(done, "ValidateFunc"), res = Panicked)
    ELSE Outcome(NilError, done, FALSE)

\* CheckTagAndFunc with the custom function called whatever the tag rule
\* returned.
CheckTagAndFuncAlways(f, value) ==
    LET tagRes == IF f.ValidateTag # "" THEN validatorVar(value, f.ValidateTag)
                  ELSE "skip"
        done == IF tagRes = "skip" THEN <<>> ELSE <<"ValidateTag">>
    IN  CheckValidateFunc(f, value, done)

\* The tag rule and then the custom function of Field.Validate.
CheckTagAndFunc(f, value) ==
    LET tagRes == IF f.ValidateTag # "" THEN validatorVar(value, f.ValidateTag)
                  ELSE "skip"
        done == IF tagRes = "skip" THEN <<>> ELSE <<"ValidateTag">>
    IN  IF tagRes = "panic" THEN Outcome(NilError, done, TRUE)
        ELSE IF tagRes = "fail"
        THEN Outcome(FieldError(f.ValidateTag, f.Name, <<>>), done, FALSE)
        ELSE CheckValidateFunc(f, value, done)

\* Field.Validate without the return on a nil value.
ValidateNilChecked(f, value) ==
    IF ~f.ValidValues.isNil THEN CheckValidValues(f, value)
    ELSE CheckTagAndFunc(f, value)

\* Field.Validate(value).
Validate(f, value) ==
    IF value = Nil THEN Outcome(NilError, <<>>, FALSE)
    ELSE IF ~f.ValidValues.isNil THEN CheckValidValues(f, value)
    ELSE CheckTagAndFunc(f, value)

\* Validate returned, and returned nil.
Valid(f, value) ==
    LET r == Validate(f, value) IN ~r.panicked /\ r.err = NilError

----------------------------------------------------------------------------
(* Default value conversion (defaults.go)                                  *)

defaultString(val) == IF val = "" THEN Nil ELSE StrVal(val)

\* Any other input than "", "true", "false" ends the process (log.Fatalf);
\* the build-time defaults are "false".
defaultBool(val) == IF val = "" THEN Nil ELSE BoolVal(val)

\* The build-time default "15m" parses; an unparsable input ends the process.
defaultDuration(val) == IF val = "" THEN Nil ELSE DurationVal(val)

DefaultAppEnvironment == "dev"
DefaultAppLogLevel == "info"
DefaultAppLogOutput == ""
DefaultAppLogFormat == "text"
DefaultAppUpdateUnstable == "false"
DefaultAppUpdateAuto == "false"
DefaultAppUpdatePeriod == "15m"

----------------------------------------------------------------------------
(* The Field objects of the program. A *Field is the name of the object;   *)
(* the variable heap holds what each object currently contains.            *)

MkField(name, group, type, default, hidden, validValues, tag, fn) ==
    [Name |-> name, Group |-> group, Type |-> type, Default |-> default,
     Hidden |-> hidden, ValidValues |-> validValues, ValidateTag |-> tag,
     ValidateFunc |-> fn]

FieldAppEnvironment ==
    MkField("environment", "Application", "string",
            defaultString(DefaultAppEnvironment), TRUE, NilSlice, "", "nil")

FieldAppLogLevel ==
    MkField("log.level", "Application", "string",
            defaultString(DefaultAppLogLevel), FALSE,
            Slice(<<StrVal("debug"), StrVal("info"), StrVal("warn"), StrVal("error")>>),
            "", "nil")

FieldAppLogOutput ==
    MkField("log.output", "Application", "string",
            defaultString(DefaultAppLogOutput), FALSE, NilSlice, "filepath", "nil")

FieldAppLogFormat ==
    MkField("log.format", "Application", "string",
            defaultString(DefaultAppLogFormat), FALSE,
            Slice(<<StrVal("json"), StrVal("text")>>), "", "nil")

FieldAppUpdateUnstable ==
    MkField("update.unstable", "Application", "bool",
            defaultBool(DefaultAppUpdateUnstable), FALSE, NilSlice, "", "nil")

FieldAppUpdateAuto ==
    MkField("update.auto", "Application", "bool",
            defaultBool(DefaultAppUpdateAuto), FALSE, NilSlice, "", "nil")

FieldAppUpdatePeriod ==
    MkField("update.period", "Application", "duration",
            defaultDuration(DefaultAppUpdatePeriod), FALSE, NilSlice, "",
            "validateDuration")

FieldNetworkProxyAll ==
    MkField("proxy.all", "Network", "string", Nil, FALSE, NilSlice, "url", "nil")

FieldNetworkProxyHttp ==
    MkField("proxy.http", "Network", "string", Nil, FALSE, NilSlice, "url", "nil")

FieldNetworkProxyHttps ==
    MkField("proxy.https", "Network", "string", Nil, FALSE, NilSlice, "url", "nil")

FieldFlagConfig ==
    MkField("config", "", "string", Nil, FALSE, NilSlice, "filepath",
            "validateConfigFile")

FieldFlagVerbose ==
    MkField("verbose", "", "bool", Nil, FALSE, NilSlice, "", "nil")

\* Two more objects, which a caller of Add may build: one named like
\* FieldAppLogLevel and one named like nothing else.
FieldCustomLogLevel ==
    MkField("log.level", "Custom", "string", StrVal("debug"), TRUE, NilSlice, "", "nil")

FieldCustomLogs ==
    MkField("logs", "Custom", "string", Nil, FALSE, NilSlice, "", "nil")

ProgramObjects ==
    [FieldAppEnvironment |-> FieldAppEnvironment,
     FieldAppLogLevel |-> FieldAppLogLevel,
     FieldAppLogOutput |-> FieldAppLogOutput,
     FieldAppLogFormat |-> FieldAppLogFormat,
     FieldAppUpdateUnstable |-> FieldAppUpdateUnstable,
     FieldAppUpdateAuto |-> FieldAppUpdateAuto,
     FieldAppUpdatePeriod |-> FieldAppUpdatePeriod,
     FieldNetworkProxyAll |-> FieldNetworkProxyAll,
     FieldNetworkProxyHttp |-> FieldNetworkProxyHttp,
     FieldNetworkProxyHttps |-> FieldNetworkProxyHttps,
     FieldFlagConfig |-> FieldFlagConfig,
     FieldFlagVerbose |-> FieldFlagVerbose,
     FieldCustomLogLevel |-> FieldCustomLogLevel,
     FieldCustomLogs |-> FieldCustomLogs]

----------------------------------------------------------------------------
(* FieldCollection                                                         *)

\* The index of the first entry of fc whose object is named name, 0 if none.
IndexOfName(fc, hp, name) ==
    IF \E i \in 1..Len(fc) : hp[fc[i]].Name = name
    THEN CHOOSE i \in 1..Len(fc) :
            /\ hp[fc[i]].Name = name
            /\ \A j \in 1..(i - 1) : hp[fc[j]].Name # name
    ELSE 0

\* One turn of the loop of FieldCollection.Add (fields.go with GroupIter):
\* the entry with the same name is replaced, or the field is appended.
AddOne(fc, hp, field) ==
    LET i == IndexOfName(fc, hp, hp[field].Name) IN
    IF i # 0 THEN [fc EXCEPT ![i] = field] ELSE Append(fc, field)

\* FieldCollection.Add(fields...) of that file.
RECURSIVE AddFields(_, _, _)
AddFields(fc, hp, fields) ==
    IF fields = <<>> THEN fc
    ELSE AddFields(AddOne(fc, hp, Head(fields)), hp, Tail(fields))

\* One turn of the loop of FieldCollection.Add of the other fields.go: the
\* object of the entry with the same name is overwritten with a copy of the
\* field (*existingField = *field), and the field is appended in any case.
AddOneCopy(st, field) ==
    LET i == IndexOfName(st.fc, st.hp, st.hp[field].Name) IN
    [fc |-> Append(st.fc, field),
     hp |-> IF i # 0 THEN [st.hp EXCEPT ![st.fc[i]] = st.hp[field]] ELSE st.hp]

\* FieldCollection.Add(f...) of that file; returns collection and heap.
RECURSIVE AddFieldsCopy(_, _)
AddFieldsCopy(st, fields) ==
    IF fields = <<>> THEN st
    ELSE AddFieldsCopy(AddOneCopy(st, Head(fields)), Tail(fields))

\* FilterPrefix with the matches collected in reverse.
RECURSIVE FilterPrefixReversed(_, _, _)
FilterPrefixReversed(fc, hp, prefix) ==
    IF fc = <<>> THEN <<>>
    ELSE IF HasPrefix(hp[Head(fc)].Name, prefix)
         THEN FilterPrefixReversed(Tail(fc), hp, prefix) \o <<Head(fc)>>
         ELSE FilterPrefixReversed(Tail(fc), hp, prefix)

\* The selection loop of listConfig / describeConfig / selectFieldsByPrefix
\* for one prefix: the entries of fc, in order, whose name has the prefix.
RECURSIVE FilterPrefix(_, _, _)
FilterPrefix(fc, hp, prefix) ==
    IF fc = <<>> THEN <<>>
    ELSE IF HasPrefix(hp[Head(fc)].Name, prefix)
         THEN <<Head(fc)>> \o FilterPrefix(Tail(fc), hp, prefix)
         ELSE FilterPrefix(Tail(fc), hp, prefix)

RECURSIVE SelectLoop(_, _, _)
SelectLoop(fc, hp, prefixes) ==
    IF prefixes = <<>> THEN <<>>
    ELSE FilterPrefix(fc, hp, Head(prefixes)) \o SelectLoop(fc, hp, Tail(prefixes))

\* selectFieldsByPrefix(prefixes) over the registry fc.
selectFieldsByPrefix(fc, hp, prefixes) ==
    IF Len(prefixes) = 0 THEN fc ELSE SelectLoop(fc, hp, prefixes)

\* fc.Group(): for each group name of the collection, its entries in the
\* order of the collection.
RECURSIVE FilterGroup(_, _, _)
FilterGroup(fc, hp, group) ==
    IF fc = <<>> THEN <<>>
    ELSE IF hp[Head(fc)].Group = group
         THEN <<Head(fc)>> \o FilterGroup(Tail(fc), hp, group)
         ELSE FilterGroup(Tail(fc), hp, group)

Group(fc, hp) ==
    [g \in {hp[fc[i]].Group : i \in 1..Len(fc)} |-> FilterGroup(fc, hp, g)]

\* slices.Sort(groupNames): the names of a set, ascending.
RECURSIVE SortNames(_)
SortNames(names) ==
    IF names = {} THEN <<>>
    ELSE LET least == CHOOSE n \in names : \A m \in names \ {n} : StrLess(n, m)
         IN  <<least>> \o SortNames(names \ {least})

\* One insertion of the sort of a group's fields: field goes behind the
\* entries whose Name is not greater than its own.
RECURSIVE InsertByName(_, _, _)
InsertByName(sorted, hp, field) ==
    IF sorted = <<>> THEN <<field>>
    ELSE IF StrLess(hp[field].Name, hp[Head(sorted)].Name)
         THEN <<field>> \o sorted
         ELSE <<Head(sorted)>> \o InsertByName(Tail(sorted), hp, field)

\* The fields of a group as Group() left them, not sorted.
SortFuncSkipped(fields, hp) == fields

\* slices.SortFunc(fields, strings.Compare on Name)
RECURSIVE SortFunc(_, _)
SortFunc(fields, hp) ==
    IF fields = <<>> THEN <<>>
    ELSE InsertByName(SortFunc(SubSeq(fields, 1, Len(fields) - 1), hp), hp,
                      fields[Len(fields)])

\* fc.GroupIter(), consumed to the end: the pairs <<group, fields>> in the
\* order they are yielded.
GroupIter(fc, hp) ==
    LET groups == Group(fc, hp)
        groupNames == SortNames(DOMAIN groups)
    IN  [i \in 1..Len(groupNames) |->
            <<groupNames[i], SortFunc(groups[groupNames[i]], hp)>>]

\* The backing arrays after fc.Group(): that of the receiver, under
\* "recv" (no group of the program has that name), and one per group,
\* which append has allocated.
GroupArrays(fc, hp) == ("recv" :> fc) @@ Group(fc, hp)

\* The array sorted for a group, were it that of the receiver.
SortTargetReceiver(group) == "recv"

\* fields := groups[group]: the array slices.SortFunc sorts in place for a
\* group is the one Group() has allocated for it.
SortTarget(group) == group

\* The arrays after the loop of GroupIter has sorted for each of names.
RECURSIVE SortedArrays(_, _, _)
SortedArrays(mem, names, hp) ==
    IF names = <<>> THEN mem
    ELSE SortedArrays(
            [mem EXCEPT ![SortTarget(Head(names))] = SortFunc(@, hp)],
            Tail(names), hp)

\* The backing arrays after fc.GroupIter() has been consumed to the end.
GroupIterArrays(fc, hp) ==
    SortedArrays(GroupArrays(fc, hp),
                 SortNames({hp[fc[i]].Group : i \in 1..Len(fc)}), hp)

\* The last index of fc that holds a field named name.
LastNamed(fc, hp, name) ==
    CHOOSE i \in 1..Len(fc) :
        /\ hp[fc[i]].Name = name
        /\ \A j \in (i + 1)..Len(fc) : hp[fc[j]].Name # name

\* fc.Map(): for each name, the last entry of the collection of that name.
Map(fc, hp) ==
    [name \in {hp[fc[i]].Name : i \in 1..Len(fc)} |-> fc[LastNamed(fc, hp, name)]]

----------------------------------------------------------------------------
(* Bounds                                                                  *)

MaxAddArgs == 2        \* descriptors passed to one Add call
MaxFields == 3         \* length of a collection built by Add calls
MaxPrefixes == 2       \* prefixes passed to one selection
MaxValidValues == 2    \* length of the ValidValues of a Field under test

\* Sequences over S of length lo..hi.
SeqsOf(S, lo, hi) == UNION {[1..n -> S] : n \in lo..hi}

----------------------------------------------------------------------------
(* Calls                                                                   *)

NoCall ==
    [op |-> "", fields |-> <<>>, prefixes |-> <<>>, out |-> <<>>,
     field |-> "", value |-> Nil, err |-> NilError, rules |-> <<>>,
     panicked |-> FALSE, got |-> Nil, yielded |-> <<>>, ops |-> <<>>,
     fault |-> "none", flags |-> {}, fs |-> <<>>, showHidden |-> FALSE,
     checked |-> FALSE, pager |-> "", recv |-> <<>>]

\* The Field objects a caller passes to Add, and the prefixes to a selection.
AddPool ==
    {"FieldAppLogLevel", "FieldNetworkProxyAll", "FieldCustomLogLevel",
     "FieldCustomLogs"}

PrefixPool == {"log", "log.", "logs", "proxy", ""}

----------------------------------------------------------------------------
(* The registry as a library: Add and prefix selection on a collection     *)
(* that starts empty.                                                      *)

InitRegistry ==
    /\ heap = [p \in AddPool |-> ProgramObjects[p]]
    /\ Fields = <<>>
    /\ fieldsImpl \in {"replace", "copy"}
    /\ phase = "Library"
    /\ exitCode = -1
    /\ osArgs = [changed |-> FALSE, value |-> ""]
    /\ osEnv = <<>>
    /\ fsConfig = <<>>
    /\ vAutoEnv = FALSE
    /\ vOverride = <<>>
    /\ vConfig = <<>>
    /\ vDefaults = <<>>
    /\ vConfigType = <<>>
    /\ lastCall = NoCall

\* Fields.Add(fields...), fields.go with GroupIter.
Add(fields) ==
    /\ phase = "Library"
    /\ fieldsImpl = "replace"
    /\ Len(AddFields(Fields, heap, fields)) <= MaxFields
    /\ Fields' = AddFields(Fields, heap, fields)
    /\ lastCall' = [NoCall EXCEPT !.op = "Add", !.fields = fields]
    /\ UNCHANGED <<heap, fieldsImpl, processVars, viperVars>>

\* Fields.Add(f...), the other fields.go.
AddCopy(fields) ==
    /\ phase = "Library"
    /\ fieldsImpl = "copy"
    /\ Len(Fields) + Len(fields) <= MaxFields
    /\ LET st == AddFieldsCopy([fc |-> Fields, hp |-> heap], fields) IN
        /\ Fields' = st.fc
        /\ heap' = st.hp
    /\ lastCall' = [NoCall EXCEPT !.op = "Add", !.fields = fields]
    /\ UNCHANGED <<fieldsImpl, processVars, viperVars>>

\* selectFieldsByPrefix(prefixes) on config.Fields, called once by the
\* command that runs after the registry has been filled.
SelectFieldsByPrefix(prefixes) ==
    /\ phase = "Library"
    /\ phase' = "Selected"
    /\ lastCall' = [NoCall EXCEPT !.op = "selectFieldsByPrefix",
                                  !.prefixes = prefixes,
                                  !.out = selectFieldsByPrefix(Fields, heap, prefixes)]
    /\ UNCHANGED <<registryVars, exitCode, osArgs, osEnv, fsConfig, viperVars>>

\* selectedFields.GroupIter() in describeConfig, ranged over to the end, on
\* the collection the selection returned. GroupIter is a method of the
\* fields.go whose Add replaces.
\* recv is the receiver's backing array after the call; the registry
\* shares it when the selection returned config.Fields itself.
GroupIterCall ==
    /\ phase = "Selected"
    /\ fieldsImpl = "replace"
    /\ phase' = "Grouped"
    /\ \E mem \in {GroupIterArrays(lastCall.out, heap)} :
        /\ Fields' = IF lastCall.prefixes = <<>> THEN mem["recv"] ELSE Fields
        /\ lastCall' = [NoCall EXCEPT !.op = "GroupIter", !.fields = lastCall.out,
                                      !.prefixes = lastCall.prefixes,
                                      !.yielded = GroupIter(lastCall.out, heap),
                                      !.recv = mem["recv"]]
    /\ UNCHANGED <<heap, fieldsImpl, exitCode, osArgs, osEnv, fsConfig, viperVars>>

\* selectedFields.Group() on the collection the selection returned.
GroupCall ==
    /\ phase = "Selected"
    /\ phase' = "Grouped"
    /\ \E mem \in {GroupArrays(lastCall.out, heap)} :
        /\ Fields' = IF lastCall.prefixes = <<>> THEN mem["recv"] ELSE Fields
        /\ lastCall' = [NoCall EXCEPT !.op = "Group", !.fields = lastCall.out,
                                      !.prefixes = lastCall.prefixes,
                                      !.yielded = [g \in DOMAIN mem \ {"recv"} |-> mem[g]],
                                      !.recv = mem["recv"]]
    /\ UNCHANGED <<heap, fieldsImpl, exitCode, osArgs, osEnv, fsConfig, viperVars>>

\* selectedFields.Map() on the collection the selection returned: Map
\* ranges over the receiver and writes to the map it has made.
MapCall ==
    /\ phase = "Selected"
    /\ phase' = "Grouped"
    /\ lastCall' = [NoCall EXCEPT !.op = "Map", !.fields = lastCall.out,
                                  !.prefixes = lastCall.prefixes,
                                  !.yielded = Map(lastCall.out, heap),
                                  !.recv = lastCall.out]
    /\ UNCHANGED <<registryVars, exitCode, osArgs, osEnv, fsConfig, viperVars>>

NextRegistry ==
    \/ \E fields \in SeqsOf(AddPool, 1, MaxAddArgs) : Add(fields)
    \/ \E fields \in SeqsOf(AddPool, 1, MaxAddArgs) : AddCopy(fields)
    \/ \E prefixes \in SeqsOf(PrefixPool, 0, MaxPrefixes) : SelectFieldsByPrefix(prefixes)
    \/ GroupIterCall
    \/ GroupCall
    \/ MapCall

SpecRegistry == InitRegistry /\ [][NextRegistry]_vars

----------------------------------------------------------------------------
(* Field.Validate as a function: the Field under test is drawn when the    *)
(* run starts, and Validate is called on it with each value.               *)

\* The values ValidValues are made of, and the values Validate is given.
AllowedPool == {StrVal("debug"), StrVal("15m"), IntVal("10")}

ValuePool ==
    {Nil, StrVal(""), StrVal("debug"), StrVal("trace"), StrVal("15m"),
     StrVal("1h30m"), StrVal("not-a-duration"), StrVal("10"), StrVal("http://proxy:8080"),
     StrVal("config.yaml"), StrVal("config.toml"), StrVal("conf.d/app.YML"),
     StrVal("config.exe"),
     StrVal("conf.d/app"), IntVal("10"), BoolVal("true")}

TestFields ==
    {MkField("log.level", "Custom", "string", Nil, FALSE, vv, tag, fn) :
        vv \in {NilSlice} \cup {Slice(e) : e \in SeqsOf(AllowedPool, 0, MaxValidValues)},
        tag \in {"", "url", "filepath"},
        fn \in {"nil", "validateDuration", "validateConfigFile",
                "validateConfigFileUnchecked"}}

InitValidate ==
    /\ \E f \in TestFields : heap = [FieldUnderTest |-> f]
    /\ Fields = <<>>
    /\ fieldsImpl = "replace"
    /\ phase = "Library"
    /\ exitCode = -1
    /\ osArgs = [changed |-> FALSE, value |-> ""]
    /\ osEnv = <<>>
    /\ fsConfig = <<>>
    /\ vAutoEnv = FALSE
    /\ vOverride = <<>>
    /\ vConfig = <<>>
    /\ vDefaults = <<>>
    /\ vConfigType = <<>>
    /\ lastCall = NoCall

\* FieldUnderTest.Validate(value)
ValidateCall(value) ==
    /\ phase = "Library"
    /\ LET r == Validate(heap["FieldUnderTest"], value) IN
        lastCall' = [NoCall EXCEPT !.op = "Validate", !.field = "FieldUnderTest",
                                  !.value = value, !.err = r.err,
                                  !.rules = r.rules, !.panicked = r.panicked]
    /\ UNCHANGED <<registryVars, processVars, viperVars>>

NextValidate == \E value \in ValuePool : ValidateCall(value)

SpecValidate == InitValidate /\ [][NextValidate]_vars

----------------------------------------------------------------------------
(* The value store: viper as config.go uses it                             *)

\* consts.ConfigEnvPrefix
ConfigEnvPrefix == "confapp"

\* The default of the --config flag, path.Join(configDir, AppName,
\* "config.yaml").
DefaultConfigPath == "confapp/config.yaml"

\* The environment variable viper looks up for a key: the prefix, "_" and
\* the key, in upper case, with the key replacer applied.
EnvKey(key) ==
    FromChars(ReplaceDots(ToUpper(Chars[ConfigEnvPrefix] \o <<"_">> \o Chars[key])))

\* The objects of the running program and the keys they name.
StoreObjects ==
    {"FieldAppEnvironment", "FieldAppLogLevel", "FieldAppLogOutput",
     "FieldAppLogFormat", "FieldAppUpdateUnstable", "FieldAppUpdateAuto",
     "FieldAppUpdatePeriod", "FieldNetworkProxyAll", "FieldNetworkProxyHttp",
     "FieldNetworkProxyHttps", "FieldFlagConfig", "FieldFlagVerbose"}

Keys == {ProgramObjects[p].Name : p \in StoreObjects}

\* EnvKey, tabulated over the keys.
EnvKeyOf == [k \in Keys |-> EnvKey(k)]

EnvNames == {EnvKeyOf[k] : k \in Keys}

\* A layer without values.
EmptyLayer == [k \in Keys |-> Nil]

\* The registry after the init functions of fields_app.go and
\* fields_network.go have run.
PackageInit ==
    AddFields(
        AddFields(<<>>, ProgramObjects,
                  <<"FieldAppEnvironment", "FieldAppLogLevel", "FieldAppLogOutput",
                    "FieldAppLogFormat", "FieldAppUpdateUnstable",
                    "FieldAppUpdateAuto", "FieldAppUpdatePeriod">>),
        ProgramObjects,
        <<"FieldNetworkProxyAll", "FieldNetworkProxyHttp", "FieldNetworkProxyHttps">>)

\* The state of viper as one value.
Viper ==
    [autoEnv |-> vAutoEnv, override |-> vOverride, config |-> vConfig,
     defaults |-> vDefaults, configType |-> vConfigType]

\* The value of the flag bound to the key with viper.BindPFlag, if the flag
\* was given on the command line. Only --config is ever given here.
FlagValue(key) ==
    IF key = "config" /\ osArgs.changed THEN StrVal(osArgs.value) ELSE Nil

\* The default of the flag bound to the key.
FlagDefault(key) ==
    IF key = "config" THEN StrVal(DefaultConfigPath)
    ELSE IF key = "verbose" THEN BoolVal("false")
    ELSE Nil

\* viper's lookup in the environment: with AutomaticEnv on, the variable
\* EnvKey(key), unless it is unset or empty.
EnvValue(v, key) ==
    IF v.autoEnv /\ osEnv[EnvKeyOf[key]] # StrVal("") THEN osEnv[EnvKeyOf[key]]
    ELSE Nil

\* FirstFound with the empty string for a key no lookup finds.
RECURSIVE FirstFoundOrEmpty(_)
FirstFoundOrEmpty(lookups) ==
    IF lookups = <<>> THEN StrVal("")
    ELSE IF Head(lookups) # Nil THEN Head(lookups)
    ELSE FirstFoundOrEmpty(Tail(lookups))

\* The first value of a sequence of lookups that is not nil.
RECURSIVE FirstFound(_)
FirstFound(lookups) ==
    IF lookups = <<>> THEN Nil
    ELSE IF Head(lookups) # Nil THEN Head(lookups)
    ELSE FirstFound(Tail(lookups))

\* viperFind with the config file consulted before the environment.
viperFindFileFirst(v, key) ==
    FirstFound(<<v.override[key], FlagValue(key), v.config[key],
                 EnvValue(v, key), v.defaults[key], FlagDefault(key)>>)

\* viper.Get(key): overrides, bound flags that were given, environment,
\* config file, defaults, and last the defaults of the bound flags.
viperFind(v, key) ==
    FirstFound(<<v.override[key], FlagValue(key), EnvValue(v, key),
                 v.config[key], v.defaults[key], FlagDefault(key)>>)

\* viper.GetString(key): the value cast to a string.
viperGetString(v, key) == viperFind(v, key).v

\* viper.Set with the value stored as a default.
viperSetAsDefault(v, key, value) == [v EXCEPT !.defaults[key] = value]

\* viper.Set(key, value)
viperSet(v, key, value) == [v EXCEPT !.override[key] = value]

\* The loop of Init left after its first iteration.
SeedDefaultsFirstOnly(v, fc, hp) ==
    IF fc = <<>> \/ hp[Head(fc)].Default = Nil THEN v
    ELSE [v EXCEPT !.defaults[hp[Head(fc)].Name] = hp[Head(fc)].Default]

\* The loop of Init that seeds the defaults of the fields of fc.
RECURSIVE SeedDefaults(_, _, _)
SeedDefaults(v, fc, hp) ==
    IF fc = <<>> THEN v
    ELSE LET field == hp[Head(fc)] IN
         SeedDefaults(IF field.Default # Nil
                      THEN [v EXCEPT !.defaults[field.Name] = field.Default]
                      ELSE v,
                      Tail(fc), hp)

\* viper.SupportedExts, in the order the search for the config file tries
\* them.
viperSupportedExts ==
    <<"json", "toml", "yaml", "yml", "properties", "props", "prop", "hcl",
      "tfvars", "dotenv", "env", "ini">>

\* stringInSlice(configType, SupportedExts), on the characters of the type.
viperSupports(configType) ==
    \E i \in 1..Len(viperSupportedExts) : Chars[viperSupportedExts[i]] = configType

\* The files and directories of the run. The file at a path is missing, ok
\* (well-formed in the format of its extension) or malformed; sibling says
\* whether the file with the name of the configured path and the extension
\* json, the first of SupportedExts, exists (it then holds SiblingContent).
FsPaths == {"confapp/config.yaml", "config.toml", "conf.d/app"}

FsDirs == {"confapp", "conf.d"}

NoFile == [state |-> "missing", content |-> EmptyLayer]

FileAt(fs, p) == IF p \in FsPaths THEN fs.files[p] ELSE NoFile

DirExists(fs, d) == d = "." \/ d \in fs.dirs

SiblingContent == [EmptyLayer EXCEPT !["log.level"] = StrVal("debug")]

\* The file viper's search finds for the name and the type loadConfigFile
\* set: in the directory of cfgFile, the first of name.<ext> over
\* SupportedExts that exists, or else the file called name. "" when there
\* is none.
viperFindConfigFile(fs, cfgFile) ==
    LET cs == Chars[cfgFile]
        name == FromChars(TrimExt(cs))
    IN  IF fs.sibling = "ok" THEN "sibling"
        ELSE IF viperSupports(Tail(Ext(cs))) /\ FileAt(fs, cfgFile).state # "missing"
        THEN cfgFile
        ELSE IF FileAt(fs, name).state # "missing" THEN name
        ELSE ""

\* The file found, parsed as configType: whether it parses, and its
\* content. JSON is read by the json and the yaml parser and by no other.
viperParse(fs, found, configType) ==
    IF found = "sibling"
    THEN [ok |-> configType \in {Chars["json"], Chars["yaml"], Chars["yml"]},
          content |-> SiblingContent]
    ELSE [ok |-> FileAt(fs, found).state = "ok",
          content |-> FileAt(fs, found).content]

\* loadConfigFile(cfgFile): SetConfigName, SetConfigType, AddConfigPath and
\* ReadInConfig. cfgFileExt[1:] panics when the path has no extension. No
\* file found is not an error; a type viper does not support and a file
\* that does not parse are. read is the file that was read, "" if none.
loadConfigFile(v, fs, cfgFile) ==
    IF Ext(Chars[cfgFile]) = <<>>
    THEN [v |-> v, err |-> NilError, panicked |-> TRUE, read |-> "", loads |-> TRUE]
    ELSE LET configType == Tail(Ext(Chars[cfgFile]))
             typed == [v EXCEPT !.configType = configType]
             found == viperFindConfigFile(fs, cfgFile)
             failed == [v |-> typed,
                        err |-> FieldError("failed to read config file", "", <<>>),
                        panicked |-> FALSE, read |-> found, loads |-> TRUE]
         IN  IF found = ""
             THEN [v |-> typed, err |-> NilError, panicked |-> FALSE, read |-> "",
                   loads |-> TRUE]
             ELSE IF ~viperSupports(configType) THEN [failed EXCEPT !.read = ""]
             ELSE IF ~viperParse(fs, found, configType).ok THEN failed
             ELSE [v |-> [typed EXCEPT !.config =
                                      viperParse(fs, found, configType).content],
                   err |-> NilError, panicked |-> FALSE, read |-> found,
                   loads |-> TRUE]

\* config.Init(); loads says whether loadConfigFile was called.
ConfigInit(v, fs, fc, hp) ==
    LET seeded == SeedDefaults([v EXCEPT !.autoEnv = TRUE], fc, hp)
        cfgFile == viperGetString(seeded, hp["FieldFlagConfig"].Name)
        checked == Validate(hp["FieldFlagConfig"], StrVal(cfgFile))
    IN  IF checked.panicked
        THEN [v |-> seeded, err |-> NilError, panicked |-> TRUE, read |-> "",
              loads |-> FALSE]
        ELSE IF checked.err # NilError
        THEN [v |-> seeded, err |-> checked.err, panicked |-> FALSE, read |-> "",
              loads |-> FALSE]
        ELSE IF cfgFile # "" THEN loadConfigFile(seeded, fs, cfgFile)
        ELSE [v |-> seeded, err |-> NilError, panicked |-> FALSE, read |-> "",
              loads |-> FALSE]

\* ReadField(f)
ReadField(f) == viperFind(Viper, f.Name)

\* cast.ToBool, cast.ToInt and cast.ToDuration as viper's typed getters
\* use them: the zero value for nil and for what does not convert. A
\* number is written in decimal; a number cast to a duration counts
\* nanoseconds.
castToBool(val) ==
    CASE val.t = "bool" -> val.v = "true"
      [] val.t = "string" -> val.v \in {"1", "t", "T", "true", "TRUE", "True"}
      [] val.t = "int" -> val.v # "0"
      [] OTHER -> FALSE

castToInt(val) ==
    CASE val.t = "int" -> val.v
      [] val.t = "bool" -> IF val.v = "true" THEN "1" ELSE "0"
      [] val.t = "string" /\ val.v # ""
            /\ (\A i \in 1..Len(Chars[val.v]) : Chars[val.v][i] \in Digits) -> val.v
      [] OTHER -> "0"

castToDuration(val) ==
    CASE val.t = "time.Duration" -> val.v
      [] val.t = "string" /\ ParseDurationOK(val.v) -> val.v
      [] val.t = "int" /\ val.v # "0" -> <<val.v, "ns">>
      [] OTHER -> "0s"

\* ReadFieldString(f), ReadFieldBool(f), ReadFieldInt(f), ReadFieldDuration(f)
ReadFieldString(f) == viperGetString(Viper, f.Name)
ReadFieldBool(f) == castToBool(viperFind(Viper, f.Name))
ReadFieldInt(f) == castToInt(viperFind(Viper, f.Name))
ReadFieldDuration(f) == castToDuration(viperFind(Viper, f.Name))

\* WriteField with the value set before it is validated.
writeFieldUnvalidated(v, f, value) ==
    LET checked == Validate(f, value) IN
    [v |-> viperSet(v, f.Name, value), err |-> checked.err,
     panicked |-> checked.panicked]

\* WriteField(f, value): the new state of viper and the error returned.
writeField(v, f, value) ==
    LET checked == Validate(f, value) IN
    IF checked.panicked \/ checked.err # NilError
    THEN [v |-> v, err |-> checked.err, panicked |-> checked.panicked]
    ELSE [v |-> viperSet(v, f.Name, value), err |-> NilError, panicked |-> FALSE]

\* viper.AllSettings(): every key viper knows from an override, a bound
\* flag, the config file or a default, with the value viper.Get resolves.
viperAllSettings(v) ==
    [k \in Keys |->
        IF \/ v.override[k] # Nil
           \/ k \in {FieldFlagConfig.Name, FieldFlagVerbose.Name}
           \/ v.config[k] # Nil
           \/ v.defaults[k] # Nil
        THEN viperFind(v, k) ELSE Nil]

\* The file system with the file at path p holding content.
WithFile(fs, p, content) ==
    IF p \in FsPaths
    THEN [fs EXCEPT !.files[p] = [state |-> "ok", content |-> content]]
    ELSE fs

\* What can go wrong on the file system during a Save, besides a missing
\* file or directory: opening the file, creating the directory, creating
\* the file, writing to the opened file.
SaveFaults == {"none", "open", "mkdir", "create", "write"}

\* viper.WriteConfigAs(filename): the type is the extension, or the type
\* set with SetConfigType for a name without one; a type viper does not
\* support is an error; the file is opened with O_CREATE|O_TRUNC and the
\* settings are written to it. err is "" (nil), "ErrNotExist" or "error".
viperWriteConfigAs(v, fs, filename, fault) ==
    LET cs == Chars[filename]
        ext == Ext(cs)
        configType == IF ext # <<>> /\ ext # Base(cs) THEN Tail(ext)
                      ELSE v.configType
        opened == << <<"OpenFile", filename>> >>
    IN  IF configType = <<>> \/ ~viperSupports(configType)
        THEN [fs |-> fs, err |-> "error", ops |-> <<>>]
        ELSE IF filename = "" \/ ~DirExists(fs, FromChars(Dir(cs)))
        THEN [fs |-> fs, err |-> "ErrNotExist", ops |-> opened]
        ELSE IF fault = "open"
        THEN [fs |-> fs, err |-> "error", ops |-> opened]
        ELSE IF fault = "write"
        THEN [fs |-> WithFile(fs, filename, EmptyLayer), err |-> "error",
              ops |-> opened]
        ELSE [fs |-> WithFile(fs, filename, viperAllSettings(v)), err |-> "",
              ops |-> opened \o << <<"Write", filename>> >>]

\* What Save and createAndWriteConfigFile return: the file system, the
\* error and the operations done on the file system, in order.
Saved(fs, msg, ops) ==
    [fs |-> fs, ops |-> ops,
     err |-> IF msg = NoError THEN NilError ELSE FieldError(msg, "", <<>>)]

\* The end of createAndWriteConfigFile with the error of the write dropped.
createdAndWrittenUnchecked(create, written) ==
    Saved(written.fs, NoError, create \o written.ops)

\* The end of createAndWriteConfigFile: what it returns once the directory
\* and the file are there (by the operations in create) and
\* viper.WriteConfigAs has returned written.
createdAndWritten(create, written) ==
    IF written.err # ""
    THEN Saved(written.fs, "failed to write configuration", create \o written.ops)
    ELSE Saved(written.fs, NoError, create \o written.ops)

\* createAndWriteConfigFile(cfgFile)
createAndWriteConfigFile(v, fs, cfgFile, fault) ==
    LET dir == FromChars(Dir(Chars[cfgFile]))
        mkdir == << <<"MkdirAll", dir>> >>
        made == [fs EXCEPT !.dirs = @ \cup ({dir} \cap FsDirs)]
        create == mkdir \o << <<"Create", cfgFile>> >>
    IN  IF fault = "mkdir"
        THEN Saved(fs, "failed to create config directory", mkdir)
        ELSE IF fault = "create" \/ cfgFile = ""
        THEN Saved(made, "failed to create config file", create)
        ELSE createdAndWritten(create,
                viperWriteConfigAs(v, WithFile(made, cfgFile, EmptyLayer),
                                   cfgFile, fault))

\* What Save returns when it has gone through createAndWriteConfigFile:
\* the operations of the first write, then those of the creation.
SavedAfter(ops, made) == [made EXCEPT !.ops = ops \o @]

\* Save() once the first viper.WriteConfigAs(cfgFile) has returned written.
SaveWritten(v, cfgFile, fault, written) ==
    IF written.err = "ErrNotExist"
    THEN SavedAfter(written.ops,
                    createAndWriteConfigFile(v, written.fs, cfgFile, fault))
    ELSE IF written.err # ""
    THEN Saved(written.fs, "failed to write config file", written.ops)
    ELSE Saved(written.fs, NoError, written.ops)

\* Save() on the path cfgFile, without the check for an empty path.
SaveToUnguarded(v, fs, fault, cfgFile) ==
    SaveWritten(v, cfgFile, fault, viperWriteConfigAs(v, fs, cfgFile, fault))

\* Save() once the config field has resolved to cfgFile.
SaveTo(v, fs, fault, cfgFile) ==
    IF cfgFile = "" THEN Saved(fs, "no config file specified", <<>>)
    ELSE SaveWritten(v, cfgFile, fault, viperWriteConfigAs(v, fs, cfgFile, fault))

\* Save()
Save(v, fs, fault) == SaveTo(v, fs, fault, viperGetString(v, FieldFlagConfig.Name))

\* The loop of setConfig over config.Fields: WriteField for every field
\* whose flag is changed, until one fails. written lists the fields set,
\* at is the field whose WriteField failed.
RECURSIVE processFieldFlags(_, _, _, _)

\* The result of the loop with the field obj put before those written.
WrittenAfter(obj, rest) == [rest EXCEPT !.written = <<obj>> \o @]

\* The loop going on to the next field when WriteField has failed.
processFieldFlagsFromSkipping(w, fc, hp, flags) ==
    IF w.err # NilError
    THEN processFieldFlags(w.v, Tail(fc), hp, flags)
    ELSE WrittenAfter(Head(fc), processFieldFlags(w.v, Tail(fc), hp, flags))

\* The loop once WriteField has returned w for the first field of fc: the
\* error of processFieldFlag, which is that of WriteField wrapped with the
\* name of the field at, ends it.
processFieldFlagsFrom(w, fc, hp, flags) ==
    IF w.err # NilError
    THEN [v |-> w.v, err |-> w.err, written |-> <<>>, at |-> Head(fc)]
    ELSE WrittenAfter(Head(fc), processFieldFlags(w.v, Tail(fc), hp, flags))

\* flag.Value.String() of the changed flag named name.
ChangedFlagValue(flags, name) == StrVal((CHOOSE a \in flags : a[1] = name)[2])

processFieldFlags(v, fc, hp, flags) ==
    IF fc = <<>> THEN [v |-> v, err |-> NilError, written |-> <<>>, at |-> ""]
    ELSE IF \E a \in flags : a[1] = hp[Head(fc)].Name
    THEN processFieldFlagsFrom(
            writeField(v, hp[Head(fc)], ChangedFlagValue(flags, hp[Head(fc)].Name)),
            fc, hp, flags)
    ELSE processFieldFlags(v, Tail(fc), hp, flags)

\* What setConfig returns, and the exit code of the process, when a
\* WriteField has failed: the error, wrapped with the name of the field.
setConfigFailed(set, hp, fs) ==
    [v |-> set.v, fs |-> fs, err |-> set.err, field |-> hp[set.at].Name,
     written |-> set.written,
     calls |-> [i \in 1..Len(set.written) + 1 |-> "WriteField"], ops |-> <<>>,
     saved |-> FALSE, exit |-> 1]

\* The same when Save has been called and has returned saved.
setConfigSaved(set, saved) ==
    [v |-> set.v, fs |-> saved.fs, err |-> saved.err, field |-> "",
     written |-> set.written,
     calls |-> [i \in 1..Len(set.written) |-> "WriteField"] \o <<"Save">>,
     ops |-> saved.ops, saved |-> TRUE,
     exit |-> IF saved.err # NilError THEN 1 ELSE 0]

\* setConfig after the loop, with Save called whether or not a flag was
\* changed.
setConfigAlwaysSaving(set, hp, fs, fault) ==
    IF set.err # NilError THEN setConfigFailed(set, hp, fs)
    ELSE setConfigSaved(set, Save(set.v, fs, fault))

\* setConfig after the loop over the fields has returned set.
setConfigAfterLoop(set, hp, fs, fault) ==
    IF set.err # NilError THEN setConfigFailed(set, hp, fs)
    ELSE IF Len(set.written) = 0
    THEN [v |-> set.v, fs |-> fs, err |-> NilError, field |-> "", written |-> <<>>,
          calls |-> <<"Help">>, ops |-> <<>>, saved |-> FALSE, exit |-> 0]
    ELSE setConfigSaved(set, Save(set.v, fs, fault))

\* setConfig(cmd, args) and what Execute makes of its result. calls lists
\* the calls made, in order: WriteField, then Help or Save.
setConfig(v, fs, fc, hp, flags, fault) ==
    setConfigAfterLoop(processFieldFlags(v, fc, hp, flags), hp, fs, fault)

\* setupConfigFlags with a flag for the hidden fields as well.
setupConfigFlagsAll(fc, hp) == {hp[fc[i]].Name : i \in 1..Len(fc)}

\* setupConfigFlags(): the names of the flags of the set command, one for
\* every field of config.Fields that is not hidden.
setupConfigFlags(fc, hp) ==
    {hp[fc[i]].Name : i \in {j \in 1..Len(fc) : ~hp[fc[j]].Hidden}}

\* The loops of list and describe skipping no field.
VisibleAll(fc, hp, showHidden) == fc

\* The fields of fc the loops of list and describe do not skip, in order.
RECURSIVE Visible(_, _, _)
Visible(fc, hp, showHidden) ==
    IF fc = <<>> THEN <<>>
    ELSE IF hp[Head(fc)].Hidden /\ ~showHidden
    THEN Visible(Tail(fc), hp, showHidden)
    ELSE <<Head(fc)>> \o Visible(Tail(fc), hp, showHidden)

\* What list and describe return when nothing is selected, in the config.go
\* that checks for it.
NoFieldsFound == FieldError("no configuration fields found", "", <<>>)

\* The lines listConfig prints for the fields in shown: name and value read.
listLines(v, shown, hp) ==
    [i \in 1..Len(shown) |-> <<hp[shown[i]].Name, viperFind(v, hp[shown[i]].Name)>>]

\* listConfig once the fields have been selected.
listSelected(v, selected, hp, checked, showHidden) ==
    IF checked /\ selected = <<>>
    THEN [err |-> NoFieldsFound, selected |-> selected, out |-> <<>>]
    ELSE [err |-> NilError, selected |-> selected,
          out |-> listLines(v, Visible(selected, hp, showHidden), hp)]

\* listConfig(cmd, args); checked says whether it is the listConfig that
\* returns an error on an empty selection.
listConfig(v, fc, hp, checked, prefixes, showHidden) ==
    listSelected(v, selectFieldsByPrefix(fc, hp, prefixes), hp, checked, showHidden)

\* How the start of the pager can go.
PagerOutcomes == {"started", "nopipe", "nostart"}

\* Pager(): the writer, the operations done on the subprocess, and those
\* the cleanup function does when called.
Pager(outcome) ==
    CASE outcome = "started" ->
            [w |-> "pager", ops |-> << <<"StdinPipe", "ok">>, <<"Start", "ok">> >>,
             cleanup |-> << <<"Close", "pager">>, <<"Wait", "pager">> >>]
      [] outcome = "nopipe" ->
            [w |-> "stdout", ops |-> << <<"StdinPipe", "fail">> >>, cleanup |-> <<>>]
      [] outcome = "nostart" ->
            [w |-> "stdout", ops |-> << <<"StdinPipe", "ok">>, <<"Start", "fail">> >>,
             cleanup |-> <<>>]

\* The lines describeConfig writes for the fields in shown.
fieldLines(shown, hp) == [i \in 1..Len(shown) |-> <<"field", hp[shown[i]].Name>>]

\* The lines describeConfig writes for the groups GroupIter yields: the
\* group, then its fields.
RECURSIVE describeLines(_, _, _)
describeLines(yielded, hp, showHidden) ==
    IF yielded = <<>> THEN <<>>
    ELSE << <<"group", Head(yielded)[1]>> >>
         \o fieldLines(Visible(Head(yielded)[2], hp, showHidden), hp)
         \o describeLines(Tail(yielded), hp, showHidden)

\* describeConfig from Pager() on, returning without the deferred cleanup.
describePagedNoCleanup(selected, lines, p) ==
    [err |-> NilError, selected |-> selected, out |-> lines, w |-> p.w,
     ops |-> p.ops \o [i \in 1..Len(lines) |-> <<"Write", p.w>>]]

\* describeConfig from Pager() on: the lines are written to the writer p.w,
\* and the deferred cleanup runs when the function returns.
describePaged(selected, lines, p) ==
    [err |-> NilError, selected |-> selected, out |-> lines, w |-> p.w,
     ops |-> p.ops \o [i \in 1..Len(lines) |-> <<"Write", p.w>>] \o p.cleanup]

\* describeConfig once the fields have been selected.
describeSelected(selected, hp, checked, showHidden, outcome) ==
    IF checked /\ selected = <<>>
    THEN [err |-> NoFieldsFound, selected |-> selected, out |-> <<>>, w |-> "",
          ops |-> <<>>]
    ELSE describePaged(selected,
                       describeLines(GroupIter(selected, hp), hp, showHidden),
                       Pager(outcome))

\* describeConfig(cmd, args), the pager starting or not as outcome says.
describeConfig(fc, hp, checked, prefixes, showHidden, outcome) ==
    describeSelected(selectFieldsByPrefix(fc, hp, prefixes), hp, checked,
                     showHidden, outcome)

----------------------------------------------------------------------------
(* The process: its inputs, initConfig, and the calls on the store         *)

MaxEnvVars == 1        \* environment variables set for the process
MaxFileKeys == 1       \* keys in the config file
MaxSetFlags == 2       \* flags changed on the command line of set

\* Flags of the set command a run may have changed, as <<name, value>>.
FlagPool ==
    { <<"log.level", "debug">>, <<"log.level", "trace">>,
      <<"proxy.all", "http://proxy:8080">>, <<"proxy.all", "not-a-url">>,
      <<"environment", "prod">> }

\* The prefix arguments a run of list or describe may be given.
ArgPrefixes == { <<>>, <<"log">>, <<"logs">>, <<"environment">> }

\* Environment variables a run may have set, as <<key, value>>.
EnvPool ==
    { <<"log.level", "warn">>, <<"log.level", "">>,
      <<"proxy.all", "http://proxy:8080">>, <<"config", "config.exe">> }

\* Keys a config file may hold, as <<key, value>>.
FilePool ==
    { <<"log.level", StrVal("error")>>, <<"proxy.all", StrVal("http://proxy:8080")>>,
      <<"update.period", IntVal("10")>>, <<"config", StrVal("conf.d/app")>>,
      <<"config", StrVal("")>> }

\* The subsets of a pool of <<key, value>> with at most n keys, no key twice.
Picks(pool, n) ==
    {S \in SUBSET pool :
        /\ Cardinality(S) <= n
        /\ \A a, b \in S : a[1] = b[1] => a = b}

\* The --config flag: not given, or given with one of these paths.
ArgChoices ==
    {[changed |-> FALSE, value |-> DefaultConfigPath]} \cup
    {[changed |-> TRUE, value |-> p] :
        p \in {"config.toml", "config.exe", "conf.d/app", ""}}

EnvChoices ==
    {[n \in EnvNames |->
        IF \E a \in S : EnvKeyOf[a[1]] = n
        THEN StrVal((CHOOSE a \in S : EnvKeyOf[a[1]] = n)[2]) ELSE Nil] :
     S \in Picks(EnvPool, MaxEnvVars)}

FlagChoices == Picks(FlagPool, MaxSetFlags)

\* What a config file may hold.
FileContents ==
    {[k \in Keys |->
        IF \E a \in S : a[1] = k THEN (CHOOSE a \in S : a[1] = k)[2] ELSE Nil] :
     S \in Picks(FilePool, MaxFileKeys)}

\* The file systems a run may start on, given the path the run is
\* configured with: only that path may hold a file, no directory is missing
\* when a file is there, and the json sibling comes with the file missing
\* or empty.
FsChoices(path) ==
    LET only(file) == [p \in FsPaths |-> IF p = path THEN file ELSE NoFile] IN
    {[files |-> only(NoFile), dirs |-> dirs, sibling |-> "missing"] :
        dirs \in {{}, FsDirs}} \cup
    IF path \in FsPaths /\ Ext(Chars[path]) # <<>>
    THEN {[files |-> only([state |-> "malformed", content |-> EmptyLayer]),
           dirs |-> FsDirs, sibling |-> "missing"]} \cup
         {[files |-> only([state |-> "ok", content |-> c]),
           dirs |-> FsDirs, sibling |-> "missing"] : c \in FileContents} \cup
         {[files |-> only(file), dirs |-> FsDirs, sibling |-> "ok"] :
            file \in {NoFile, [state |-> "ok", content |-> EmptyLayer]}}
    ELSE {}

\* The path the run is configured with: the --config flag if given, else
\* the environment variable if set, else the default of the flag.
StartPath ==
    IF osArgs.changed THEN osArgs.value
    ELSE IF osEnv[EnvKeyOf["config"]] \notin {Nil, StrVal("")}
    THEN osEnv[EnvKeyOf["config"]].v
    ELSE DefaultConfigPath

\* The fields ReadField and WriteField are called with, and the values
\* written.
ReadPool == {"FieldAppLogLevel", "FieldNetworkProxyAll", "FieldFlagConfig"}

WriteFieldPool == {"FieldAppLogLevel", "FieldNetworkProxyAll"}

WritePool ==
    {Nil, StrVal("debug"), StrVal("trace"), StrVal("http://proxy:8080"),
     IntVal("10")}

\* The validateConfigFile a build may have: the two validators.go differ
\* in the check for an empty extension.
ConfigFileValidators == {"validateConfigFile", "validateConfigFileUnchecked"}

Init ==
    /\ heap \in {[p \in StoreObjects |->
                     IF p = "FieldFlagConfig"
                     THEN [ProgramObjects[p] EXCEPT !.ValidateFunc = fn]
                     ELSE ProgramObjects[p]] : fn \in ConfigFileValidators}
    /\ Fields = PackageInit
    /\ fieldsImpl = "replace"
    /\ phase = "Uninitialized"
    /\ exitCode = -1
    /\ osArgs \in ArgChoices
    /\ osEnv \in EnvChoices
    /\ fsConfig \in FsChoices(StartPath)
    /\ vAutoEnv = FALSE
    /\ vOverride = EmptyLayer
    /\ vConfig = EmptyLayer
    /\ vDefaults = EmptyLayer
    /\ vConfigType = <<>>
    /\ lastCall = NoCall

\* initConfig going on to the command when config.Init() has failed.
initConfigNoExit(r) == "Ready"

\* Where initConfig leaves the process when config.Init() has returned r:
\* os.Exit(1) on an error, and a panic ends the process as well.
initConfigExit(r) == IF r.panicked \/ r.err # NilError THEN "Exited" ELSE "Ready"

\* initConfig, run by cobra before the command: config.Init(), and
\* os.Exit(1) if it returns an error. A panic ends the process with 2.
initConfig ==
    /\ phase = "Uninitialized"
    /\ \E r \in {ConfigInit(Viper, fsConfig, Fields, heap)} :
        /\ vAutoEnv' = r.v.autoEnv
        /\ vOverride' = r.v.override
        /\ vConfig' = r.v.config
        /\ vDefaults' = r.v.defaults
        /\ vConfigType' = r.v.configType
        /\ phase' = initConfigExit(r)
        /\ exitCode' = IF r.panicked THEN 2 ELSE IF r.err # NilError THEN 1 ELSE -1
        /\ lastCall' = [NoCall EXCEPT !.op = "Init", !.err = r.err,
                                      !.panicked = r.panicked,
                                      !.rules = IF r.loads
                                                THEN <<"Validate", "loadConfigFile">>
                                                ELSE <<"Validate">>,
                                      !.ops = IF r.read = "" THEN <<>>
                                              ELSE <<<<"ReadFile", r.read>>>>]
    /\ UNCHANGED <<registryVars, osArgs, osEnv, fsConfig>>

\* config.WriteField(f, value)
WriteField(f, value) ==
    /\ phase = "Ready"
    /\ \E r \in {writeField(Viper, heap[f], value)} :
        /\ vOverride' = r.v.override
        /\ vDefaults' = r.v.defaults
        /\ phase' = IF r.panicked THEN "Exited" ELSE phase
        /\ exitCode' = IF r.panicked THEN 2 ELSE exitCode
        /\ lastCall' = [NoCall EXCEPT !.op = "WriteField", !.field = f,
                                      !.value = value, !.err = r.err,
                                      !.panicked = r.panicked]
    /\ UNCHANGED <<registryVars, osArgs, osEnv, fsConfig, vAutoEnv, vConfig,
                   vConfigType>>

\* config.ReadField(f)
ReadFieldCall(f) ==
    /\ phase = "Ready"
    /\ lastCall' = [NoCall EXCEPT !.op = "ReadField", !.field = f,
                                  !.got = ReadField(heap[f])]
    /\ UNCHANGED <<registryVars, processVars, viperVars>>

\* The set command, with the flags in flags changed on the command line
\* (as <<name, value>>) and the file system failing as fault says: run to
\* its end, the process exits with 0, or with 1 when setConfig returns an
\* error or Save fails. Cobra runs the command right after initConfig.
SetConfig(flags, fault) ==
    /\ phase = "Ready"
    /\ lastCall.op = "Init"
    /\ \A a \in flags : a[1] \in setupConfigFlags(Fields, heap)
    /\ \E r \in {setConfig(Viper, fsConfig, Fields, heap, flags, fault)} :
        /\ vOverride' = r.v.override
        /\ fsConfig' = r.fs
        /\ phase' = "Exited"
        /\ exitCode' = r.exit
        /\ lastCall' = [NoCall EXCEPT !.op = "setConfig", !.flags = flags,
                                      !.fs = fsConfig,
                                      !.fields = r.written, !.rules = r.calls,
                                      !.field = r.field,
                                      !.err = r.err, !.ops = r.ops,
                                      !.fault = IF r.saved THEN fault ELSE "none"]
    /\ UNCHANGED <<registryVars, osArgs, osEnv, vAutoEnv, vConfig, vDefaults,
                   vConfigType>>

\* A set command with a flag that setupConfigFlags has not registered:
\* cobra parses the flags before it runs initConfig, returns the error of
\* the unknown flag, and Execute exits with 1.
UnknownFlag(flags) ==
    /\ phase = "Uninitialized"
    /\ \E a \in flags : a[1] \notin setupConfigFlags(Fields, heap)
    /\ phase' = "Exited"
    /\ exitCode' = 1
    /\ lastCall' = [NoCall EXCEPT !.op = "ParseFlags", !.flags = flags,
                                  !.err = FieldError("unknown flag", "", <<>>)]
    /\ UNCHANGED <<registryVars, osArgs, osEnv, fsConfig, viperVars>>

\* The list command with the prefixes as arguments and --hidden as
\* showHidden says, run to its end: the process exits with 1 when
\* listConfig returns an error, with 0 otherwise.
ListConfig(checked, prefixes, showHidden) ==
    /\ phase = "Ready"
    /\ lastCall.op = "Init"
    /\ \E r \in {listConfig(Viper, Fields, heap, checked, prefixes, showHidden)} :
        /\ phase' = "Exited"
        /\ exitCode' = IF r.err # NilError THEN 1 ELSE 0
        /\ lastCall' = [NoCall EXCEPT !.op = "listConfig", !.prefixes = prefixes,
                                      !.showHidden = showHidden,
                                      !.checked = checked, !.fields = r.selected,
                                      !.out = r.out, !.err = r.err]
    /\ UNCHANGED <<registryVars, osArgs, osEnv, fsConfig, viperVars>>

\* The describe command, likewise, the pager starting or not as outcome
\* says.
DescribeConfig(checked, prefixes, showHidden, outcome) ==
    /\ phase = "Ready"
    /\ lastCall.op = "Init"
    /\ \E r \in {describeConfig(Fields, heap, checked, prefixes, showHidden, outcome)} :
        /\ phase' = "Exited"
        /\ exitCode' = IF r.err # NilError THEN 1 ELSE 0
        /\ lastCall' = [NoCall EXCEPT !.op = "describeConfig",
                                      !.prefixes = prefixes,
                                      !.showHidden = showHidden,
                                      !.checked = checked, !.pager = outcome,
                                      !.fields = r.selected, !.out = r.out,
                                      !.ops = r.ops, !.err = r.err]
    /\ UNCHANGED <<registryVars, osArgs, osEnv, fsConfig, viperVars>>

Next ==
    \/ initConfig
    \/ \E flags \in FlagChoices : UnknownFlag(flags)
    \/ \E checked, showHidden \in BOOLEAN, prefixes \in ArgPrefixes :
            ListConfig(checked, prefixes, showHidden)
    \/ \E checked, showHidden \in BOOLEAN, prefixes \in ArgPrefixes,
          outcome \in PagerOutcomes :
            DescribeConfig(checked, prefixes, showHidden, outcome)
    \/ \E flags \in FlagChoices, fault \in SaveFaults : SetConfig(flags, fault)
    \/ \E f \in WriteFieldPool, value \in WritePool : WriteField(f, value)
    \/ \E f \in ReadPool : ReadFieldCall(f)

Spec == Init /\ [][Next]_vars

----------------------------------------------------------------------------
(* Claims on the registry                                                  *)

\* The step is a call of Add with the single descriptor lastCall'.fields[1].
AddOneStep ==
    /\ lastCall'.op = "Add"
    /\ Len(lastCall'.fields) = 1

\* C1: Add of a descriptor whose Name is already in the collection puts the
\* new descriptor at the index the old one had and leaves the length
\* unchanged; a descriptor with a new Name is appended and the length grows
\* by exactly one.
C1_AddReplacesInPlaceOrAppends ==
    [][AddOneStep =>
        LET f == lastCall'.fields[1]
            i == IndexOfName(Fields, heap, heap[f].Name)
        IN  IF i # 0
            THEN /\ Len(Fields') = Len(Fields)
                 /\ heap'[Fields'[i]] = heap[f]
            ELSE /\ Len(Fields') = Len(Fields) + 1
                 /\ Fields'[Len(Fields')] = f
                 /\ SubSeq(Fields', 1, Len(Fields)) = Fields]_vars

\* C2: after any sequence of Add calls from the empty collection, no two
\* entries of the collection have the same Name.
C2_NamesUnique ==
    \A i, j \in 1..Len(Fields) :
        i # j => heap[Fields[i]].Name # heap[Fields[j]].Name

\* The indices of the registry entries whose name starts with prefix.
MatchingIndices(prefix) ==
    {i \in 1..Len(Fields) : HasPrefix(heap[Fields[i]].Name, prefix)}

\* The k-th smallest element of the set of indices S.
KthIndex(S, k) == CHOOSE i \in S : Cardinality({j \in S : j < i}) = k - 1

\* C10: selection with a single prefix p returns exactly the registered
\* fields whose Name starts with p, in registry order.
C10_SinglePrefixSelection ==
    (lastCall.op = "selectFieldsByPrefix" /\ Len(lastCall.prefixes) = 1) =>
        LET S == MatchingIndices(lastCall.prefixes[1]) IN
        /\ Len(lastCall.out) = Cardinality(S)
        /\ \A k \in 1..Len(lastCall.out) :
              lastCall.out[k] = Fields[KthIndex(S, k)]

\* A selection that keeps two fields that are apart in the registry and
\* drops the one between them.
C10_Witness ==
    /\ lastCall.op = "selectFieldsByPrefix"
    /\ Len(lastCall.prefixes) = 1
    /\ Len(lastCall.out) = 2
    /\ Len(Fields) >= 3
    /\ lastCall.out[1] = Fields[1]
    /\ lastCall.out[2] = Fields[3]

\* The indices of the registry entries whose name starts with one of the
\* prefixes.
MatchingAnyIndices(prefixes) ==
    {i \in 1..Len(Fields) :
        \E k \in 1..Len(prefixes) : HasPrefix(heap[Fields[i]].Name, prefixes[k])}

\* C11: selection with a list of prefixes returns the registered fields
\* whose Name starts with any of the prefixes, each once and in registry
\* order; with an empty list it returns the full registry.
C11_MultiPrefixSelection ==
    lastCall.op = "selectFieldsByPrefix" =>
        IF Len(lastCall.prefixes) = 0 THEN lastCall.out = Fields
        ELSE LET S == MatchingAnyIndices(lastCall.prefixes) IN
             /\ Len(lastCall.out) = Cardinality(S)
             /\ \A k \in 1..Len(lastCall.out) :
                   lastCall.out[k] = Fields[KthIndex(S, k)]

\* How often the object p occurs in the collection fc.
Occurrences(fc, p) == Cardinality({i \in 1..Len(fc) : fc[i] = p})

\* C12: GroupIter yields each distinct Group of the collection exactly once,
\* in ascending order of group name, and with each group exactly the
\* entries of the collection that are of that group, each once, in
\* ascending order of Name.
C12_GroupIterSorted ==
    lastCall.op = "GroupIter" =>
        LET fc == lastCall.fields
            out == lastCall.yielded
        IN  /\ {out[i][1] : i \in 1..Len(out)} =
                  {heap[fc[i]].Group : i \in 1..Len(fc)}
            /\ \A i, j \in 1..Len(out) : i < j => StrLess(out[i][1], out[j][1])
            /\ \A i \in 1..Len(out) :
                  LET group == out[i][1]
                      fields == out[i][2]
                  IN  /\ \A k \in 1..Len(fields) : heap[fields[k]].Group = group
                      /\ \A p \in DOMAIN heap :
                            heap[p].Group = group =>
                                Occurrences(fields, p) = Occurrences(fc, p)
                      /\ \A k, l \in 1..Len(fields) :
                            k < l => ~StrLess(heap[fields[l]].Name,
                                              heap[fields[k]].Name)

\* A collection that holds "logs" before "log.level", both of the group
\* Custom, and a field of Network before them, was iterated: Custom came
\* first, with "log.level" before "logs".
C12_Witness ==
    /\ lastCall.op = "GroupIter"
    /\ lastCall.fields =
          <<"FieldNetworkProxyAll", "FieldCustomLogs", "FieldCustomLogLevel">>
    /\ lastCall.yielded =
          << <<"Custom", <<"FieldCustomLogLevel", "FieldCustomLogs">> >>,
             <<"Network", <<"FieldNetworkProxyAll">> >> >>

----------------------------------------------------------------------------
(* Claims on Field.Validate                                                *)

\* The last call was Validate on a value that is not nil.
ValidatedNonNil == lastCall.op = "Validate" /\ lastCall.value # Nil

\* The last call of Validate returned nil.
ReturnedNil == ~lastCall.panicked /\ lastCall.err = NilError

\* C6: for a field with a non-empty ValidValues and a non-nil value, Validate
\* returns nil exactly when the value is a member of ValidValues, and
\* otherwise returns an error that names the field and the allowed set.
C6_ValidValuesMembership ==
    ValidatedNonNil =>
        LET f == heap[lastCall.field]
            allowed == f.ValidValues.elems
        IN  Len(allowed) > 0 =>
              /\ ~lastCall.panicked
              /\ (lastCall.err = NilError) <=>
                    (lastCall.value \in {allowed[i] : i \in 1..Len(allowed)})
              /\ lastCall.err # NilError =>
                    /\ lastCall.err.name = f.Name
                    /\ lastCall.err.allowed = allowed

\* A value that is the second of two allowed values was accepted.
C6_Witness ==
    /\ ValidatedNonNil
    /\ Len(heap[lastCall.field].ValidValues.elems) = 2
    /\ heap[lastCall.field].ValidValues.elems[1] # lastCall.value
    /\ heap[lastCall.field].ValidValues.elems[2] = lastCall.value
    /\ ReturnedNil

\* C7: Validate returns nil for a nil value on every field, whatever its
\* ValidValues, ValidateTag and ValidateFunc, without invoking ValidateFunc.
C7_NilIsAlwaysValid ==
    (lastCall.op = "Validate" /\ lastCall.value = Nil) =>
        /\ ReturnedNil
        /\ \A i \in 1..Len(lastCall.rules) : lastCall.rules[i] # "ValidateFunc"

\* A nil value was accepted by a field that declares allowed values, a tag
\* and a function.
C7_Witness ==
    /\ lastCall.op = "Validate"
    /\ lastCall.value = Nil
    /\ Len(heap[lastCall.field].ValidValues.elems) > 0
    /\ heap[lastCall.field].ValidateTag # ""
    /\ heap[lastCall.field].ValidateFunc # "nil"
    /\ ReturnedNil

\* C8: when ValidValues is set the outcome depends on membership only and
\* neither the tag rule nor ValidateFunc is evaluated; when ValidValues is
\* absent and a tag and a ValidateFunc are declared, the tag rule runs
\* first, ValidateFunc runs only if the tag rule passes, and the value is
\* valid only if both pass.
C8_ValidationOrder ==
    ValidatedNonNil =>
        LET f == heap[lastCall.field]
            tagPasses == validatorVar(lastCall.value, f.ValidateTag) = "pass"
            funcPasses == CallValidateFunc(f.ValidateFunc, lastCall.value) = NoError
        IN  /\ ~f.ValidValues.isNil =>
                /\ lastCall.rules = <<"ValidValues">>
                /\ ReturnedNil <=> Contains(f.ValidValues.elems, lastCall.value)
            /\ (f.ValidValues.isNil /\ f.ValidateTag # "" /\ f.ValidateFunc # "nil") =>
                /\ lastCall.rules[1] = "ValidateTag"
                /\ (lastCall.rules = <<"ValidateTag", "ValidateFunc">>) <=> tagPasses
                /\ ~tagPasses => lastCall.rules = <<"ValidateTag">>
                /\ ReturnedNil <=> (tagPasses /\ funcPasses)

\* The tag rule rejected a value that the function would have accepted, and
\* the function was not called.
C8_Witness ==
    /\ ValidatedNonNil
    /\ heap[lastCall.field].ValidValues.isNil
    /\ heap[lastCall.field].ValidateTag = "url"
    /\ heap[lastCall.field].ValidateFunc = "validateDuration"
    /\ lastCall.value = StrVal("15m")
    /\ lastCall.rules = <<"ValidateTag">>
    /\ lastCall.err # NilError

\* C9: a field whose ValidValues is empty (absent or of length zero) is not
\* subject to the allowed-value check: Validate goes on to the tag rule and
\* ValidateFunc, and with no tag and no ValidateFunc accepts every value.
C9_EmptyValidValuesNotChecked ==
    ValidatedNonNil =>
        LET f == heap[lastCall.field] IN
        Len(f.ValidValues.elems) = 0 =>
            /\ \A i \in 1..Len(lastCall.rules) : lastCall.rules[i] # "ValidValues"
            /\ (f.ValidateTag = "" /\ f.ValidateFunc = "nil") => ReturnedNil

\* The characters cs end with a dot and the extension ext, in any case.
EndsWithExt(cs, ext) ==
    /\ Len(cs) > Len(ext)
    /\ ToLower(SubSeq(cs, Len(cs) - Len(ext), Len(cs))) = <<".">> \o ext

\* The last call was Validate with a string, on a field whose only rule is
\* one of the two validateConfigFile.
ConfigFileValidated ==
    /\ lastCall.op = "Validate"
    /\ lastCall.value.t = "string"
    /\ heap[lastCall.field].ValidValues.isNil
    /\ heap[lastCall.field].ValidateTag = ""
    /\ heap[lastCall.field].ValidateFunc \in
          {"validateConfigFile", "validateConfigFileUnchecked"}

\* C13: the config-file validator accepts a path exactly when it is empty
\* or its extension, compared case-insensitively, is one of yaml, yml, json,
\* toml, hcl, env; every other path, one without an extension included, is
\* rejected with an error and not with a crash.
C13_ConfigFileValidator ==
    ConfigFileValidated =>
        /\ ~lastCall.panicked
        /\ (lastCall.err = NilError) <=>
              \/ lastCall.value.v = ""
              \/ \E i \in 1..Len(validConfigFileExts) :
                    EndsWithExt(Chars[lastCall.value.v],
                                Chars[validConfigFileExts[i]])

\* A decimal number: digits with at most one dot, at least one digit.
IsNumber(cs) ==
    /\ \A i \in 1..Len(cs) : cs[i] \in Digits \cup {"."}
    /\ \E i \in 1..Len(cs) : cs[i] \in Digits
    /\ Cardinality({i \in 1..Len(cs) : cs[i] = "."}) <= 1

\* A number followed by one of the units ns, us, ms, s, m, h.
IsDurationTerm(cs) ==
    \E n \in 1..(Len(cs) - 1) :
        /\ IsNumber(SubSeq(cs, 1, n))
        /\ SubSeq(cs, n + 1, Len(cs)) \in
              { <<"n", "s">>, <<"u", "s">>, <<"m", "s">>, <<"s">>, <<"m">>, <<"h">> }

\* One or more terms, one after the other.
RECURSIVE IsDurationTerms(_)
IsDurationTerms(cs) ==
    \E n \in 1..Len(cs) :
        /\ IsDurationTerm(SubSeq(cs, 1, n))
        /\ n = Len(cs) \/ IsDurationTerms(SubSeq(cs, n + 1, Len(cs)))

\* A duration expression such as 15m or 1h30m: an optional sign and then
\* either 0 or terms.
IsDurationExpression(s) ==
    LET cs == Chars[s]
        unsigned == IF cs # <<>> /\ cs[1] \in {"+", "-"} THEN Tail(cs) ELSE cs
    IN  unsigned = <<"0">> \/ IsDurationTerms(unsigned)

\* The last call was Validate on a field whose only rule is
\* validateDuration.
DurationValidated ==
    /\ lastCall.op = "Validate"
    /\ heap[lastCall.field].ValidValues.isNil
    /\ heap[lastCall.field].ValidateTag = ""
    /\ heap[lastCall.field].ValidateFunc = "validateDuration"

\* C14: the duration validator accepts every numeric value and every string
\* that is a duration expression, and rejects every other non-empty string.
C14_DurationValidator ==
    DurationValidated =>
        /\ ~lastCall.panicked
        /\ lastCall.value.t \in NumericTypes => lastCall.err = NilError
        /\ (lastCall.value.t = "string" /\ lastCall.value.v # "") =>
              ((lastCall.err = NilError) <=> IsDurationExpression(lastCall.value.v))

\* "1h30m" was accepted by the duration validator.
C14_Witness ==
    /\ DurationValidated
    /\ lastCall.value = StrVal("1h30m")
    /\ lastCall.rules = <<"ValidateFunc">>
    /\ lastCall.err = NilError

----------------------------------------------------------------------------
(* Claims on the value store                                               *)

\* The value a source holds for a key, read from the inputs of the process
\* and the registered descriptor: the environment variable (unset and empty
\* are both "no value"), the config file, the registered default.
FromEnvironment(key) ==
    IF osEnv[EnvKeyOf[key]] \in {Nil, StrVal("")} THEN Nil ELSE osEnv[EnvKeyOf[key]]

FromConfigFile(key) == vConfig[key]

\* C3: for every registered field, ReadField returns the value of the
\* highest-priority source that holds one, in the order explicitly set
\* value, environment variable, config-file value, registered default.
C3_ReadPrecedence ==
    phase = "Ready" =>
        \A i \in 1..Len(Fields) :
            LET f == heap[Fields[i]]
                key == f.Name
                got == ReadField(f)
            IN  IF vOverride[key] # Nil THEN got = vOverride[key]
                ELSE IF FromEnvironment(key) # Nil THEN got = FromEnvironment(key)
                ELSE IF FromConfigFile(key) # Nil THEN got = FromConfigFile(key)
                ELSE got = f.Default

\* log.level was read with the environment, the config file and the default
\* holding three different values, and the read returned the environment's.
C3_Witness ==
    /\ phase = "Ready"
    /\ lastCall.op = "ReadField"
    /\ lastCall.field = "FieldAppLogLevel"
    /\ vOverride["log.level"] = Nil
    /\ FromEnvironment("log.level") = StrVal("warn")
    /\ FromConfigFile("log.level") = StrVal("error")
    /\ heap["FieldAppLogLevel"].Default = StrVal("info")
    /\ lastCall.got = StrVal("warn")

\* The last call was a WriteField that returned nil.
WriteSucceeded ==
    /\ lastCall.op = "WriteField"
    /\ ~lastCall.panicked
    /\ lastCall.err = NilError

\* C4 as stated: after WriteField(field, value) with any value that passes
\* the field's Validate, ReadField(field) returns the written value.
C4_WriteReadRoundTrip ==
    WriteSucceeded => ReadField(heap[lastCall.field]) = lastCall.value

\* C4, amended: after WriteField(field, value) with any non-nil value that
\* passes the field's Validate, ReadField(field) returns the written value,
\* whatever the environment, the config file and the default hold.
C4_WriteReadRoundTripNonNil ==
    (WriteSucceeded /\ lastCall.value # Nil) =>
        ReadField(heap[lastCall.field]) = lastCall.value

\* "debug" was written to log.level while the environment or the config
\* file held another value for it, and is what a read returns.
C4_Witness ==
    /\ WriteSucceeded
    /\ lastCall.field = "FieldAppLogLevel"
    /\ lastCall.value = StrVal("debug")
    /\ \/ FromEnvironment("log.level") = StrVal("warn")
       \/ FromConfigFile("log.level") = StrVal("error")
    /\ ReadField(heap["FieldAppLogLevel"]) = StrVal("debug")

\* The step is a WriteField with a value on which the field's Validate
\* returns an error.
FailedWriteStep ==
    /\ phase = "Ready"
    /\ lastCall'.op = "WriteField"
    /\ ~lastCall'.panicked
    /\ Validate(heap[lastCall'.field], lastCall'.value).err # NilError

\* C5: WriteField with a value that fails the field's Validate returns an
\* error and leaves the store unchanged: ReadField of every field returns
\* what it returned before the call.
C5_FailedWriteLeavesStore ==
    [][FailedWriteStep =>
        /\ lastCall'.err # NilError
        /\ vOverride' = vOverride
        /\ \A p \in StoreObjects : ReadField(heap[p])' = ReadField(heap[p])]_vars

\* After a successful write of "debug" to log.level, the write of "trace"
\* failed with an error naming the field and its allowed values, and the
\* read still returns "debug".
C5_Witness ==
    /\ lastCall.op = "WriteField"
    /\ lastCall.field = "FieldAppLogLevel"
    /\ lastCall.value = StrVal("trace")
    /\ lastCall.err # NilError
    /\ lastCall.err.name = "log.level"
    /\ lastCall.err.allowed = heap["FieldAppLogLevel"].ValidValues.elems
    /\ vOverride["log.level"] = StrVal("debug")
    /\ ReadField(heap["FieldAppLogLevel"]) = StrVal("debug")

\* No explicitly set value, environment variable or file value exists for
\* the key.
OnlyDefaultLeft(key) ==
    /\ vOverride[key] = Nil
    /\ FromEnvironment(key) = Nil
    /\ FromConfigFile(key) = Nil

\* C15: after a successful Init, every registered field whose Default is
\* not absent has that default seeded and resolves to it when no explicit
\* value, environment variable or file value exists for it, and every
\* registered field whose Default is absent has no default seeded.
C15_DefaultsSeeded ==
    phase = "Ready" =>
        \A i \in 1..Len(Fields) :
            LET f == heap[Fields[i]] IN
            IF f.Default # Nil
            THEN /\ vDefaults[f.Name] = f.Default
                 /\ OnlyDefaultLeft(f.Name) => ReadField(f) = f.Default
            ELSE /\ vDefaults[f.Name] = Nil
                 /\ OnlyDefaultLeft(f.Name) => ReadField(f) = Nil

\* Init has just succeeded: update.period, the seventh field registered,
\* resolves to its default 15m, and log.output, whose default is the empty
\* build-time string, has none.
C15_Witness ==
    /\ phase = "Ready"
    /\ lastCall.op = "Init"
    /\ OnlyDefaultLeft("update.period")
    /\ ReadField(heap["FieldAppUpdatePeriod"]) = DurationVal("15m")
    /\ heap["FieldAppLogOutput"].Default = Nil
    /\ ReadField(heap["FieldAppLogOutput"]) = Nil

\* Init has just run with a configured path that passes the validation of
\* the config field.
InitRanOnValidPath ==
    /\ lastCall.op = "Init"
    /\ StartPath # ""
    /\ LET checked == Validate(heap["FieldFlagConfig"], StrVal(StartPath))
       IN  ~checked.panicked /\ checked.err = NilError

\* C16: Init with a configured config-file path that passes validation
\* succeeds when the file does not exist, the store then holding no file
\* value, and fails with an error on every other failure to read the file.
C16_MissingFileTolerated ==
    InitRanOnValidPath =>
        /\ FileAt(fsConfig, StartPath).state = "missing" =>
              /\ phase = "Ready"
              /\ lastCall.err = NilError
              /\ vConfig = EmptyLayer
        /\ FileAt(fsConfig, StartPath).state = "malformed" =>
              /\ phase = "Exited"
              /\ exitCode = 1
              /\ lastCall.err # NilError

\* The path has an extension, and it is one of validConfigFileExts.
PathAllowed(p) ==
    LET ext == ToLower(Ext(Chars[p])) IN ext # <<>> /\ SupportedExt(Tail(ext))

\* The paths the operations in ops wrote the configuration to.
WrittenPaths(ops) ==
    {ops[i][2] : i \in {j \in 1..Len(ops) : ops[j][1] = "Write"}}

\* Init run on a path whose extension is not allowed fails with the
\* validation error, no file read.
InitRejectsBeforeReading ==
    (lastCall.op = "Init" /\ StartPath # "" /\ ~PathAllowed(StartPath)) =>
        /\ phase = "Exited"
        /\ exitCode = 1
        /\ lastCall.err # NilError
        /\ lastCall.ops = <<>>

\* C17: a config-file path with an unsupported extension is rejected before
\* any load or save: Init on such a path returns the validation error
\* without reading a file, and Save never writes the configuration to a
\* path whose extension is outside validConfigFileExts.
C17_UnsupportedExtensionRejected ==
    /\ InitRejectsBeforeReading
    /\ lastCall.op = "setConfig" =>
          \A p \in WrittenPaths(lastCall.ops) : PathAllowed(p)

\* The set command has just run and called Save.
SaveCalled ==
    /\ lastCall.op = "setConfig"
    /\ lastCall.rules # <<>>
    /\ lastCall.rules[Len(lastCall.rules)] = "Save"

\* The path Save resolved: the config field as the store has it.
SavePath == viperGetString(Viper, FieldFlagConfig.Name)

\* C18: Save with no config-file path configured (the config field resolves
\* to the empty string) returns an error, writes nothing and creates no
\* file or directory.
C18_SaveWithoutPath ==
    (SaveCalled /\ SavePath = "") =>
        /\ lastCall.err # NilError
        /\ lastCall.ops = <<>>
        /\ fsConfig = lastCall.fs
        /\ exitCode = 1

\* The set command has called Save with the config field resolving to the
\* empty string, the path given as --config "" or by the config file.
C18_Witness ==
    /\ SaveCalled
    /\ SavePath = ""
    /\ lastCall.err # NilError

\* The file at the path Save resolved holds the settings of the store.
SavedFileWritten ==
    FileAt(fsConfig, SavePath) =
        [state |-> "ok", content |-> viperAllSettings(Viper)]

\* The operations of a Save that found the directory missing and nothing
\* failing: the refused write, the directory tree, the empty file, the
\* write.
CreatingOps(p) ==
    << <<"OpenFile", p>>, <<"MkdirAll", FromChars(Dir(Chars[p]))>>,
       <<"Create", p>>, <<"OpenFile", p>>, <<"Write", p>> >>

\* C19: Save to a configured path whose file or parent directory does not
\* exist creates the directory tree and an empty file, writes the
\* configuration and returns success; a failure to open or write the file,
\* to create the directory or to create the file is returned as an error,
\* and so is a failure of the write that follows the creation.
C19_SaveCreatesMissingPath ==
    (SaveCalled /\ SavePath # "") =>
        LET p == SavePath
            dir == FromChars(Dir(Chars[p]))
            noDir == ~DirExists(lastCall.fs, dir)
            noFile == FileAt(lastCall.fs, p).state = "missing"
            fault == lastCall.fault
            bites == \/ fault \in {"open", "write"}
                     \/ fault \in {"mkdir", "create"} /\ noDir
        IN  /\ ~bites /\ (noDir \/ noFile) =>
                  /\ lastCall.err = NilError
                  /\ exitCode = 0
                  /\ DirExists(fsConfig, dir)
                  /\ SavedFileWritten
                  /\ noDir => lastCall.ops = CreatingOps(p)
            /\ bites =>
                  /\ lastCall.err # NilError
                  /\ exitCode = 1
                  /\ ~SavedFileWritten
                  /\ fault = "mkdir" => ~DirExists(fsConfig, dir)
            /\ lastCall.err = NilError => SavedFileWritten

\* Save has found the directory of the configured path missing, created the
\* directory and the file and written the settings.
C19_Witness ==
    /\ SaveCalled
    /\ SavePath = "confapp/config.yaml"
    /\ lastCall.ops = CreatingOps(SavePath)
    /\ lastCall.err = NilError
    /\ SavedFileWritten

\* The write that follows the creation has failed, and Save has returned
\* the error.
C19_WitnessSecondWrite ==
    /\ SaveCalled
    /\ lastCall.fault = "write"
    /\ Len(lastCall.ops) = 4
    /\ lastCall.ops[3][1] = "Create"
    /\ lastCall.err # NilError

\* C20: the set command calls Save only if the flag of at least one field
\* was changed on the command line; with no field flag changed it prints
\* help, writes no field, does not call Save and exits 0.
C20_SaveOnlyOnChange ==
    lastCall.op = "setConfig" =>
        /\ SaveCalled =>
              /\ lastCall.flags # {}
              /\ Len(lastCall.fields) = Cardinality(lastCall.flags)
        /\ lastCall.flags = {} =>
              /\ lastCall.rules = <<"Help">>
              /\ lastCall.fields = <<>>
              /\ vOverride = EmptyLayer
              /\ fsConfig = lastCall.fs
              /\ lastCall.ops = <<>>
              /\ phase = "Exited"
              /\ exitCode = 0

\* The set command has run with no flag changed, on a path the file of
\* which is missing: help, and still no file.
C20_Witness ==
    /\ lastCall.op = "setConfig"
    /\ lastCall.flags = {}
    /\ lastCall.rules = <<"Help">>
    /\ FileAt(fsConfig, SavePath).state = "missing"
    /\ exitCode = 0

\* The set command has run with two flags changed, written both fields and
\* saved.
C20_WitnessSaved ==
    /\ SaveCalled
    /\ lastCall.rules = <<"WriteField", "WriteField", "Save">>
    /\ vOverride["log.level"] = StrVal("debug")
    /\ SavedFileWritten
    /\ exitCode = 0

----------------------------------------------------------------------------
(* Claims on the commands                                                  *)

\* The steps of an invocation of list, describe or set that can end the
\* process.
InvocationOps == {"ParseFlags", "Init", "listConfig", "describeConfig", "setConfig"}

\* config.Init() has just failed.
InitFailed == lastCall.op = "Init" /\ (lastCall.err # NilError \/ lastCall.panicked)

\* Save has just been called by the set command and has failed.
SaveFailed == SaveCalled /\ lastCall.err # NilError

\* C21: an invocation of list, describe or set ends with exit code 1 when
\* the initialization of the configuration fails or when Save fails, and
\* with exit code 0 in every other case.
C21_ExitCodes ==
    (phase = "Exited" /\ lastCall.op \in InvocationOps) =>
        exitCode = IF InitFailed \/ SaveFailed THEN 1 ELSE 0

\* C22: the store goes from Uninitialized to Ready through Init: every
\* WriteField and every Save (the set command) is a step from a Ready store,
\* a failed Init ends the process, which then takes no further step, and a
\* store that has left Uninitialized never returns to it.
C22_Lifecycle ==
    [][/\ phase # "Exited"
       /\ lastCall'.op = "Init" => phase = "Uninitialized"
       /\ phase = "Uninitialized" => lastCall'.op \in {"Init", "ParseFlags"}
       /\ lastCall'.op \in {"WriteField", "setConfig"} => phase = "Ready" /\ vAutoEnv
       /\ InitFailed' => phase' = "Exited"
       /\ phase # "Uninitialized" => phase' # "Uninitialized"]_vars

\* Init has succeeded, and the set command has then written a field and
\* saved.
C22_Witness ==
    /\ SaveCalled
    /\ vAutoEnv
    /\ lastCall.fields # <<>>
    /\ lastCall.err = NilError

\* The registered field named name is hidden.
HiddenName(name) == \E i \in 1..Len(Fields) :
    heap[Fields[i]].Name = name /\ heap[Fields[i]].Hidden

C23_WitnessRejected ==
    /\ lastCall.op = "ParseFlags"
    /\ \E a \in lastCall.flags : HiddenName(a[1])

\* list --hidden has printed the hidden field with its default.
C23_WitnessRead ==
    /\ lastCall.op = "listConfig"
    /\ lastCall.showHidden
    /\ lastCall.out = << <<"environment", StrVal("dev")>> >>

\* Nothing holds a value for the key: no explicit value (set or given as
\* a flag), no environment variable, no file value, no default (seeded or
\* of a bound flag).
EntirelyUnset(key) ==
    /\ OnlyDefaultLeft(key)
    /\ FlagValue(key) = Nil
    /\ vDefaults[key] = Nil
    /\ FlagDefault(key) = Nil

\* C24: reading a field that has no explicit value, no environment
\* variable, no file value and no default returns the absent value (nil,
\* and the zero value of the type from the typed readers) and fails in no
\* state of the store.
C24_UnsetReadsAbsent ==
    /\ \A i \in 1..Len(Fields) :
          LET f == heap[Fields[i]] IN
          EntirelyUnset(f.Name) =>
              /\ ReadField(f) = Nil
              /\ ReadFieldString(f) = ""
              /\ ReadFieldBool(f) = FALSE
              /\ ReadFieldInt(f) = "0"
              /\ ReadFieldDuration(f) = "0s"
    /\ (lastCall.op = "ReadField" /\ EntirelyUnset(heap[lastCall.field].Name)) =>
          /\ lastCall.got = Nil
          /\ phase = "Ready"
          /\ exitCode = -1

\* ReadField has been called on proxy.all with nothing set for it.
C24_Witness ==
    /\ lastCall.op = "ReadField"
    /\ lastCall.field = "FieldNetworkProxyAll"
    /\ EntirelyUnset("proxy.all")
    /\ lastCall.got = Nil

\* C25: no operation changes an attribute of a descriptor object that is
\* already registered: across every step, every object the registry holds
\* has the attributes it had before the step.
C25_DescriptorImmutable ==
    [][\A i \in 1..Len(Fields) : heap'[Fields[i]] = heap[Fields[i]]]_vars

\* The same, for every step but an Add of the fields.go that copies.
C25_ImmutableButForCopy ==
    [][fieldsImpl = "replace" =>
          \A i \in 1..Len(Fields) : heap'[Fields[i]] = heap[Fields[i]]]_vars

\* The changed flags of a set command whose value the Validate of their
\* field rejects.
FailingFlags(flags, fc, hp) ==
    {a \in flags : \E i \in 1..Len(fc) :
        /\ hp[fc[i]].Name = a[1]
        /\ Validate(hp[fc[i]], StrVal(a[2])).err # NilError}

\* C26: when the value of one of the changed flags of a set command fails
\* the validation of WriteField, the command returns that error wrapped
\* with the name of the field, Save is not called and the config file is
\* left as it was, whatever the other flags of the invocation carried.
C26_FailedSetPersistsNothing ==
    (lastCall.op = "setConfig" /\ FailingFlags(lastCall.flags, Fields, heap) # {}) =>
        /\ lastCall.err # NilError
        /\ \E a \in FailingFlags(lastCall.flags, Fields, heap) :
              /\ lastCall.field = a[1]
              /\ \E i \in 1..Len(Fields) :
                    /\ heap[Fields[i]].Name = a[1]
                    /\ lastCall.err = Validate(heap[Fields[i]], StrVal(a[2])).err
        /\ \A i \in 1..Len(lastCall.rules) : lastCall.rules[i] = "WriteField"
        /\ lastCall.ops = <<>>
        /\ fsConfig = lastCall.fs

\* A set command has written log.level and has then failed on proxy.all.
C26_Witness ==
    /\ lastCall.op = "setConfig"
    /\ lastCall.flags = {<<"log.level", "debug">>, <<"proxy.all", "not-a-url">>}
    /\ lastCall.fields = <<"FieldAppLogLevel">>
    /\ lastCall.field = "proxy.all"
    /\ lastCall.err # NilError
    /\ fsConfig = lastCall.fs

\* The names of the fields the last list or describe has output.
OutputNames ==
    IF lastCall.op = "listConfig"
    THEN {lastCall.out[k][1] : k \in 1..Len(lastCall.out)}
    ELSE {lastCall.out[k][2] : k \in {j \in 1..Len(lastCall.out) :
                                         lastCall.out[j][1] = "field"}}

\* C27: list and describe output a selected field with Hidden set if and
\* only if --hidden was given, and output every selected field that is not
\* hidden with or without it; they output no field that is not selected.
C27_HiddenOnlyWithFlag ==
    (lastCall.op \in {"listConfig", "describeConfig"} /\ lastCall.err = NilError) =>
        /\ \A i \in 1..Len(lastCall.fields) :
              LET f == heap[lastCall.fields[i]] IN
              f.Name \in OutputNames <=> (~f.Hidden \/ lastCall.showHidden)
        /\ \A n \in OutputNames :
              \E i \in 1..Len(lastCall.fields) : heap[lastCall.fields[i]].Name = n

\* describe --hidden has output the hidden field environment.
C27_Witness ==
    /\ lastCall.op = "describeConfig"
    /\ lastCall.showHidden
    /\ "environment" \in OutputNames
    /\ "log.level" \in OutputNames

\* list without --hidden has selected environment and has output the
\* fields around it only.
C27_WitnessDefault ==
    /\ lastCall.op = "listConfig"
    /\ ~lastCall.showHidden
    /\ \E i \in 1..Len(lastCall.fields) : heap[lastCall.fields[i]].Name = "environment"
    /\ "environment" \notin OutputNames
    /\ "log.level" \in OutputNames

\* The last describe has started a pager subprocess.
PagerStarted == \E k \in 1..Len(lastCall.ops) : lastCall.ops[k] = <<"Start", "ok">>

\* The positions of the operations of the last describe named name.
OpsNamed(name) == {k \in 1..Len(lastCall.ops) : lastCall.ops[k][1] = name}

\* C28: when describe has started a pager, the pager's input has been
\* closed and the subprocess waited for, once each and after every write,
\* by the time the command returns; when the pager was not started, every
\* line has gone to standard output and nothing is closed or waited for.
C28_PagerCleanedUp ==
    lastCall.op = "describeConfig" =>
        /\ PagerStarted =>
              /\ lastCall.pager = "started"
              /\ OpsNamed("Close") = {Len(lastCall.ops) - 1}
              /\ OpsNamed("Wait") = {Len(lastCall.ops)}
              /\ \A k \in OpsNamed("Write") : lastCall.ops[k][2] = "pager"
        /\ ~PagerStarted =>
              /\ OpsNamed("Close") = {}
              /\ OpsNamed("Wait") = {}
              /\ \A k \in OpsNamed("Write") : lastCall.ops[k][2] = "stdout"
        /\ Cardinality(OpsNamed("Write")) = Len(lastCall.out)
        /\ (lastCall.err = NilError /\ lastCall.pager = "started") => PagerStarted

\* describe has written its lines to a pager it started, and has closed
\* and waited for it.
C28_Witness ==
    /\ lastCall.op = "describeConfig"
    /\ PagerStarted
    /\ OpsNamed("Write") # {}
    /\ lastCall.ops[Len(lastCall.ops)] = <<"Wait", "pager">>

\* describe has written its lines to standard output, the pager having
\* failed to start.
C28_WitnessFallback ==
    /\ lastCall.op = "describeConfig"
    /\ lastCall.pager = "nostart"
    /\ OpsNamed("Write") # {}
    /\ \A k \in OpsNamed("Write") : lastCall.ops[k][2] = "stdout"

\* describe has returned its error before starting a pager.
C28_WitnessEarlyReturn ==
    /\ lastCall.op = "describeConfig"
    /\ lastCall.pager = "started"
    /\ lastCall.err # NilError
    /\ lastCall.ops = <<>>

\* C29: Group, GroupIter and Map leave the collection they are called on
\* with the same descriptors in the same order, GroupIter's sorting
\* included, and leave the registry so when the collection is the registry
\* itself, as selected with no prefix.
C29_ViewsReadOnly ==
    lastCall.op \in {"Group", "GroupIter", "Map"} =>
        /\ lastCall.recv = lastCall.fields
        /\ lastCall.prefixes = <<>> => Fields = lastCall.fields
        /\ lastCall.op = "GroupIter" =>
              \A i \in 1..Len(lastCall.yielded) :
                  GroupIterArrays(lastCall.fields, heap)[lastCall.yielded[i][1]]
                      = lastCall.yielded[i][2]

\* GroupIter was called on the registry itself, which holds "logs" before
\* "log.level", and has yielded them in the other order.
C29_Witness ==
    /\ lastCall.op = "GroupIter"
    /\ lastCall.prefixes = <<>>
    /\ Fields = <<"FieldCustomLogs", "FieldCustomLogLevel">>
    /\ lastCall.yielded = << <<"Custom", <<"FieldCustomLogLevel", "FieldCustomLogs">> >> >>

\* Group and Map were called on the registry itself.
C29_WitnessGroup ==
    /\ lastCall.op = "Group"
    /\ lastCall.prefixes = <<>>
    /\ Len(Fields) = MaxFields
    /\ Cardinality(DOMAIN lastCall.yielded) = 2

C29_WitnessMap ==
    /\ lastCall.op = "Map"
    /\ lastCall.prefixes = <<>>
    /\ Len(Fields) = MaxFields
    /\ Cardinality(DOMAIN lastCall.yielded) = 2

\* Init has just run and has called loadConfigFile.
LoadCalled ==
    /\ lastCall.op = "Init"
    /\ lastCall.rules = <<"Validate", "loadConfigFile">>

\* loadConfigFile is called with a path of an allowed extension only, and
\* its cfgFileExt[1:] does not panic.
LoadReachedWithExtension ==
    LoadCalled => /\ PathAllowed(StartPath)
                  /\ ~lastCall.panicked

\* C30: for every value of the config path, Init either returns a
\* validation error without calling loadConfigFile, or calls loadConfigFile
\* with a path whose extension is not empty and is an allowed one, so that
\* the cfgFileExt[1:] of loadConfigFile slices no empty string.
C30_LoadOnlyWithExtension ==
    lastCall.op = "Init" =>
        /\ LoadReachedWithExtension
        /\ ~LoadCalled =>
              /\ ~lastCall.panicked
              /\ lastCall.err # NilError
              /\ lastCall.ops = <<>>
              /\ exitCode = 1

\* The same for the build whose validateConfigFile checks for an empty
\* extension.
C30_WithExtensionCheck ==
    heap["FieldFlagConfig"].ValidateFunc = "validateConfigFile" =>
        C30_LoadOnlyWithExtension

====
